---- MODULE Spec2Model ----
(***************************************************************************)
(* Model of the arbitrage bot: the price store (data_manager.data_store),  *)
(* the quote validator, the per-exchange monitoring supervisors with the  *)
(* exchange wrapper, the join of main() and the arbitrage detector.        *)
(***************************************************************************)
EXTENDS Integers, Sequences, FiniteSets, TLC

VARIABLES
    data_store,     \* keys: the exchange ids in insertion order; deques:
                    \* exchange -> symbol -> deque of <<timestamp, enhanced quote>>
    now,            \* the value time.time() returns
    config,         \* the loaded configuration values the core reads; the
                    \* parsed configuration where its validation is modelled
    sup,            \* per exchange: the monitor_exchange_with_retry task
    opportunities,  \* all_opportunities of the last detection cycle
    lookup,         \* the last get_tradeable_price call and what it returned
    raw_in,         \* a raw quote handed to the validator
    validated,      \* what the validator returned for raw_in, or how the
                    \* validation of the parsed configuration ended
    orch            \* main(): the state of asyncio.gather and of the detector task

vars == <<data_store, now, config, sup, opportunities, lookup, raw_in, validated, orch>>

-----------------------------------------------------------------------------
(* Python floats: a rational num/den in lowest terms, or NaN.              *)

RECURSIVE GCD(_, _)
GCD(a, b) == IF b = 0 THEN a ELSE GCD(b, a % b)

Abs(n) == IF n < 0 THEN -n ELSE n

NaN == [nan |-> TRUE, num |-> 0, den |-> 1]

Rat(n, d) ==
    LET g == GCD(Abs(n), Abs(d))
        s == IF d < 0 THEN -1 ELSE 1
    IN  [nan |-> FALSE, num |-> s * (n \div g), den |-> s * (d \div g)]

Flt(n) == Rat(n, 1)

FMul(x, y) == IF x.nan \/ y.nan THEN NaN ELSE Rat(x.num * y.num, x.den * y.den)
FSub(x, y) ==
    IF x.nan \/ y.nan THEN NaN
    ELSE Rat(x.num * y.den - y.num * x.den, x.den * y.den)
\* x / y; callers only divide by a validated (non-zero) value or by NaN.
FDiv(x, y) == IF x.nan \/ y.nan THEN NaN ELSE Rat(x.num * y.den, x.den * y.num)
\* Comparisons with NaN are False, as in IEEE 754.
FLt(x, y) == ~x.nan /\ ~y.nan /\ x.num * y.den < y.num * x.den
FLe(x, y) == ~x.nan /\ ~y.nan /\ x.num * y.den <= y.num * x.den
FGt(x, y) == FLt(y, x)
FMin(x, y) == IF FLt(y, x) THEN y ELSE x

-----------------------------------------------------------------------------
(* Raw quotes as the feed hands them over.  A field of the dict is absent, *)
(* None, a string float() cannot parse, a number, a numeric string or NaN. *)

Absent   == [tag |-> "absent", v |-> 0]
Null     == [tag |-> "none", v |-> 0]
BadStr   == [tag |-> "str", v |-> 0]
NaNVal   == [tag |-> "nan", v |-> 0]
Num(n)   == [tag |-> "int", v |-> n]
NumStr(n) == [tag |-> "numstr", v |-> n]

NoSymbol == "<no symbol>"

\* A dict result: its 'symbol' entry (or NoSymbol) and the four quote fields.
Ticker(sym, b, a, bv, av) ==
    [kind |-> "dict", symbol |-> sym, bid |-> b, ask |-> a,
     bidVolume |-> bv, askVolume |-> av]
RawNone == [kind |-> "none", symbol |-> NoSymbol, bid |-> Absent, ask |-> Absent,
            bidVolume |-> Absent, askVolume |-> Absent]
RawException == [kind |-> "exception", symbol |-> NoSymbol, bid |-> Absent,
                 ask |-> Absent, bidVolume |-> Absent, askVolume |-> Absent]
EmptyDict == Ticker(NoSymbol, Absent, Absent, Absent, Absent)

\* bool(raw_data) for None and for a dict.
Truthy(raw) ==
    /\ raw.kind = "dict"
    /\ \/ raw.symbol # NoSymbol
       \/ \E f \in {"bid", "ask", "bidVolume", "askVolume"} : raw[f].tag # "absent"

\* field not in raw_data or raw_data[field] is None
FieldMissing(raw, f) == raw[f].tag \in {"absent", "none"}

\* float(value) raises ValueError/TypeError
FloatRaises(val) == val.tag = "str"

\* float(value)
ToFloat(val) == IF val.tag = "nan" THEN NaN ELSE Flt(val.v)

None == [none |-> TRUE]

\* min(100, max(0, 20 * (min_volume_usd / 1000) ** 0.3)) for the smaller of
\* the two notional volumes: 0 when it is NaN (max(0, nan) is 0), and
\* otherwise the value the expression has for it.
volume_score(min_volume_usd) ==
    IF min_volume_usd.nan THEN [score |-> "0", usd |-> min_volume_usd]
    ELSE [score |-> "min(100, 20 * (usd / 1000) ** 0.3)", usd |-> min_volume_usd]

\* Variant: a crossed book is repaired by swapping bid and ask.
validate_spread_crossed(raw, exchange_id, symbol) ==
    LET bid == ToFloat(raw.bid)
        ask == ToFloat(raw.ask)
        bid_volume == ToFloat(raw.bidVolume)
        ask_volume == ToFloat(raw.askVolume)
    IN  IF ~Truthy(raw) THEN None
        ELSE IF \E f \in {"bid", "ask", "bidVolume", "askVolume"} : FieldMissing(raw, f)
        THEN None
        ELSE IF FloatRaises(raw.bid) \/ FloatRaises(raw.ask) THEN None
        ELSE IF FLe(bid, Flt(0)) \/ FLe(ask, Flt(0)) THEN None
        ELSE IF FloatRaises(raw.bidVolume) \/ FloatRaises(raw.askVolume) THEN None
        ELSE IF FLe(bid_volume, Flt(0)) \/ FLe(ask_volume, Flt(0)) THEN None
        ELSE [bid |-> FMin(bid, ask), ask |-> IF FLt(ask, bid) THEN bid ELSE ask,
              bid_volume |-> bid_volume, ask_volume |-> ask_volume,
              spread_pct |-> FMul(FDiv(FSub(ask, bid), bid), Flt(100)),
              volume_score |->
                  volume_score(FMin(FMul(bid, bid_volume), FMul(ask, ask_volume)))]

\* Variant: only bid and ask are required; a missing volume defaults to 1.
validate_ignores_null(raw, exchange_id, symbol) ==
    LET bid == ToFloat(raw.bid)
        ask == ToFloat(raw.ask)
        bid_volume == ToFloat(raw.bidVolume)
        ask_volume == ToFloat(raw.askVolume)
    IN  IF ~Truthy(raw) THEN None
        ELSE IF \E f \in {"bid", "ask"} : FieldMissing(raw, f) THEN None
        ELSE IF FloatRaises(raw.bid) \/ FloatRaises(raw.ask) THEN None
        ELSE IF FLe(bid, Flt(0)) \/ FLe(ask, Flt(0)) \/ FLt(ask, bid) THEN None
        ELSE IF FloatRaises(raw.bidVolume) \/ FloatRaises(raw.askVolume) THEN None
        ELSE [bid |-> bid, ask |-> ask,
              bid_volume |-> IF FieldMissing(raw, "bidVolume") THEN Flt(1) ELSE bid_volume,
              ask_volume |-> IF FieldMissing(raw, "askVolume") THEN Flt(1) ELSE ask_volume,
              spread_pct |-> FMul(FDiv(FSub(ask, bid), bid), Flt(100)),
              volume_score |->
                  volume_score(FMin(FMul(bid, bid_volume), FMul(ask, ask_volume)))]

\* Variant: the quote is returned before the derived fields are added.
validate_unenhanced(raw, exchange_id, symbol) ==
    LET bid == ToFloat(raw.bid)
        ask == ToFloat(raw.ask)
        bid_volume == ToFloat(raw.bidVolume)
        ask_volume == ToFloat(raw.askVolume)
    IN  IF ~Truthy(raw) THEN None
        ELSE IF \E f \in {"bid", "ask", "bidVolume", "askVolume"} : FieldMissing(raw, f)
        THEN None
        ELSE IF FloatRaises(raw.bid) \/ FloatRaises(raw.ask) THEN None
        ELSE IF FLe(bid, Flt(0)) \/ FLe(ask, Flt(0)) \/ FLt(ask, bid) THEN None
        ELSE IF FloatRaises(raw.bidVolume) \/ FloatRaises(raw.askVolume) THEN None
        ELSE IF FLe(bid_volume, Flt(0)) \/ FLe(ask_volume, Flt(0)) THEN None
        ELSE [bid |-> bid, ask |-> ask,
              bid_volume |-> bid_volume, ask_volume |-> ask_volume]

\* validate_and_enhance_price_data(raw_data, exchange_id, symbol): the enhanced
\* quote, or None.
validate_and_enhance_price_data(raw, exchange_id, symbol) ==
    LET bid == ToFloat(raw.bid)
        ask == ToFloat(raw.ask)
        bid_volume == ToFloat(raw.bidVolume)
        ask_volume == ToFloat(raw.askVolume)
    IN  IF ~Truthy(raw) THEN None
        ELSE IF \E f \in {"bid", "ask", "bidVolume", "askVolume"} : FieldMissing(raw, f)
        THEN None
        ELSE IF FloatRaises(raw.bid) \/ FloatRaises(raw.ask) THEN None
        ELSE IF FLe(bid, Flt(0)) \/ FLe(ask, Flt(0)) \/ FLt(ask, bid) THEN None
        ELSE IF FloatRaises(raw.bidVolume) \/ FloatRaises(raw.askVolume) THEN None
        ELSE IF FLe(bid_volume, Flt(0)) \/ FLe(ask_volume, Flt(0)) THEN None
        ELSE [bid |-> bid, ask |-> ask,
              bid_volume |-> bid_volume, ask_volume |-> ask_volume,
              spread_pct |-> FMul(FDiv(FSub(ask, bid), bid), Flt(100)),
              volume_score |->
                  volume_score(FMin(FMul(bid, bid_volume), FMul(ask, ask_volume)))]

-----------------------------------------------------------------------------
(* Configuration (config_loader.config) as the core reads it.              *)

BTC_USDT == "BTC/USDT"
ETH_BTC  == "ETH/BTC"
ETH_USDT == "ETH/USDT"

\* config.exchange_ids
exchange_ids == <<"E1", "E2">>
Exchanges == {exchange_ids[i] : i \in DOMAIN exchange_ids}

\* The symbols of the model, in the order list(set(...)) yields them.
SymbolList == <<BTC_USDT, ETH_BTC, ETH_USDT>>
Symbols == {SymbolList[i] : i \in DOMAIN SymbolList}

\* The sub-sequence of seq whose elements are in S, in order.
RECURSIVE FilterSeq(_, _)
FilterSeq(seq, S) ==
    IF seq = <<>> THEN <<>>
    ELSE IF Head(seq) \in S THEN <<Head(seq)>> \o FilterSeq(Tail(seq), S)
    ELSE FilterSeq(Tail(seq), S)

SeqRange(seq) == {seq[i] : i \in DOMAIN seq}

\* config.get_exchange_symbols(exchange_id)
get_exchange_symbols(exchange_id) == config.exchanges[exchange_id]

\* The 'poll_interval_seconds' entry of an exchange's configuration, which
\* may be left out.
NoInterval == [present |-> FALSE, v |-> 0, numeric |-> TRUE]
Interval(n) == [present |-> TRUE, v |-> n, numeric |-> TRUE]
\* An entry that is not a number (a JSON string); the loader does not check it.
TextInterval == [present |-> TRUE, v |-> 0, numeric |-> FALSE]
NoPollIntervals == [e \in Exchanges |-> NoInterval]

\* config.get_exchange_poll_interval(exchange_id): the configured value, 1.0
\* when the entry is left out.
get_exchange_poll_interval(exchange_id) ==
    IF config.poll_interval_seconds[exchange_id].present
    THEN config.poll_interval_seconds[exchange_id].v
    ELSE 1

\* `await asyncio.sleep(poll_interval_seconds)` raises TypeError when the
\* interval handed to poll_exchange_rest_api is not a number.
sleep_raises(exchange_id) == ~config.poll_interval_seconds[exchange_id].numeric

\* config.get_all_symbols(): the union of the exchanges' symbols, as a list
get_all_symbols ==
    FilterSeq(SymbolList,
              UNION {SeqRange(config.exchanges[e]) : e \in DOMAIN config.exchanges})

-----------------------------------------------------------------------------
(* The price store: a defaultdict of defaultdicts of deque(maxlen=100).    *)

MAXLEN == 100

EmptyStore == [keys |-> <<>>, deques |-> <<>>]

HasExchange(ds, e) == e \in DOMAIN ds.deques
HasKey(ds, e, s) == HasExchange(ds, e) /\ s \in DOMAIN ds.deques[e]

\* The store after evaluating data_store[e][s]: a defaultdict creates the
\* missing exchange entry and the missing (empty) deque on access.
Touch(ds, e, s) ==
    IF ~HasExchange(ds, e)
    THEN [keys |-> Append(ds.keys, e), deques |-> ds.deques @@ (e :> (s :> <<>>))]
    ELSE IF s \notin DOMAIN ds.deques[e]
    THEN [ds EXCEPT !.deques[e] = @ @@ (s :> <<>>)]
    ELSE ds

\* The deque data_store[e][s] yields (empty when it has to be created).
Deque(ds, e, s) == IF HasKey(ds, e, s) THEN ds.deques[e][s] ELSE <<>>

\* Variant: a plain list, no maxlen.
deque_append_unbounded(dq, item) == Append(dq, item)

\* Variant: a full deque discards its newest item.
deque_append_drop_newest(dq, item) ==
    IF Len(dq) >= MAXLEN THEN Append(SubSeq(dq, 1, Len(dq) - 1), item)
    ELSE Append(dq, item)

\* Variant: appendleft, the newest item goes to the front.
deque_append_left(dq, item) ==
    IF Len(dq) >= MAXLEN THEN <<item>> \o SubSeq(dq, 1, Len(dq) - 1)
    ELSE <<item>> \o dq

\* Variant: the item is inserted before the newest one.
deque_append_before_newest(dq, item) ==
    LET kept == IF Len(dq) >= MAXLEN THEN Tail(dq) ELSE dq
    IN  IF kept = <<>> THEN <<item>>
        ELSE SubSeq(kept, 1, Len(kept) - 1) \o <<item, kept[Len(kept)]>>

\* deque(maxlen=100).append(item): a full deque discards its oldest item.
deque_append(dq, item) ==
    IF Len(dq) >= MAXLEN THEN Append(Tail(dq), item) ELSE Append(dq, item)

\* data_store[exchange_id][symbol].append((ts, enhanced_data))
StoreAppend(ds, e, s, ts, q) ==
    LET d1 == Touch(ds, e, s)
    IN  [d1 EXCEPT !.deques[e][s] = deque_append(@, <<ts, q>>)]

\* Variant: the commented-out volume check enforced.
get_tradeable_price_volume_gated(ds, e, s, max_age_seconds, min_volume_usd, t) ==
    LET dq == Deque(ds, e, s)
        ts == dq[Len(dq)][1]
        q  == dq[Len(dq)][2]
    IN  IF dq = <<>> THEN None
        ELSE IF t - ts > max_age_seconds THEN None
        ELSE IF FLt(FMin(FMul(q.bid, q.bid_volume), FMul(q.ask, q.ask_volume)),
                    Flt(min_volume_usd)) THEN None
        ELSE q

\* Variant: an entry of age exactly max_age_seconds counts as stale.
get_tradeable_price_stale_ge(ds, e, s, max_age_seconds, min_volume_usd, t) ==
    LET dq == Deque(ds, e, s)
    IN  IF dq = <<>> THEN None
        ELSE IF t - dq[Len(dq)][1] >= max_age_seconds THEN None
        ELSE dq[Len(dq)][2]

\* Variant: no staleness check.
get_tradeable_price_no_staleness(ds, e, s, max_age_seconds, min_volume_usd, t) ==
    LET dq == Deque(ds, e, s)
    IN  IF dq = <<>> THEN None ELSE dq[Len(dq)][2]

\* What get_tradeable_price(exchange_id, symbol, max_age_seconds, min_volume_usd)
\* returns at time t; the store it leaves behind is Touch(ds, e, s).
get_tradeable_price(ds, e, s, max_age_seconds, min_volume_usd, t) ==
    LET dq == Deque(ds, e, s)
    IN  IF dq = <<>> THEN None
        ELSE IF t - dq[Len(dq)][1] > max_age_seconds THEN None
        ELSE dq[Len(dq)][2]

-----------------------------------------------------------------------------
(* The detector (arbitrage_detector).                                      *)

\* Variant: the curated list names the triangle twice.
triangles_repeated ==
    << <<BTC_USDT, ETH_BTC, ETH_USDT>>, <<BTC_USDT, ETH_BTC, ETH_USDT>> >>

\* The curated triangles of detect_triangular_arbitrage_single_exchange.
triangles == << <<BTC_USDT, ETH_BTC, ETH_USDT>> >>

\* Variant: the threshold itself qualifies.
ExceedsThreshold_ge(profit_percentage, min_profit_percentage) ==
    FLe(Flt(min_profit_percentage), profit_percentage)

\* The strict comparison profit_percentage > min_profit_percentage.
ExceedsThreshold(profit_percentage, min_profit_percentage) ==
    FGt(profit_percentage, Flt(min_profit_percentage))

\* final_usdt = 1 * usdt_to_btc_rate * btc_to_eth_rate * eth_to_usdt_rate;
\* profit_percentage = (final_usdt - 1) * 100
TriangularProfit(q_base_quote, q_alt_base, q_alt_quote) ==
    LET usdt_to_btc_rate == FDiv(Flt(1), q_base_quote.ask)
        btc_to_eth_rate  == q_alt_base.ask
        eth_to_usdt_rate == q_alt_quote.bid
        final_usdt == FMul(FMul(FMul(Flt(1), usdt_to_btc_rate), btc_to_eth_rate),
                           eth_to_usdt_rate)
    IN  FMul(FSub(final_usdt, Flt(1)), Flt(100))

\* price_data of the triangular scan: the symbols of `symbols` whose
\* get_tradeable_price is truthy.
TradeableSymbols(ds, exchange_id, symbols, t) ==
    {s \in symbols :
        get_tradeable_price(ds, exchange_id, s, config.max_age_seconds,
                            config.min_volume_usd_triangular, t) # None}

PriceOf(ds, exchange_id, s, min_volume_usd, t) ==
    get_tradeable_price(ds, exchange_id, s, config.max_age_seconds, min_volume_usd, t)

\* The opportunities of triangles[i..] on one exchange.
RECURSIVE TriangleOpps(_, _, _, _, _, _)
TriangleOpps(ds, exchange_id, symbols, min_profit_percentage, t, i) ==
    IF i > Len(triangles) THEN <<>>
    ELSE
      LET tri == triangles[i]
          price_data == TradeableSymbols(ds, exchange_id, symbols, t)
          rest == TriangleOpps(ds, exchange_id, symbols, min_profit_percentage, t, i + 1)
          mv == config.min_volume_usd_triangular
          profit == TriangularProfit(PriceOf(ds, exchange_id, tri[1], mv, t),
                                     PriceOf(ds, exchange_id, tri[2], mv, t),
                                     PriceOf(ds, exchange_id, tri[3], mv, t))
      IN  IF {tri[1], tri[2], tri[3]} \subseteq price_data
             /\ ExceedsThreshold(profit, min_profit_percentage)
          THEN << [type |-> "triangular", exchange |-> exchange_id, path |-> tri,
                   profit_percentage |-> profit] >> \o rest
          ELSE rest

\* detect_triangular_arbitrage_single_exchange(exchange_id, symbols, min_profit_percentage)
detect_triangular_arbitrage_single_exchange(ds, exchange_id, symbols, min_profit_percentage, t) ==
    TriangleOpps(ds, exchange_id, symbols, min_profit_percentage, t, 1)

\* Variant: the reverse direction is reported on the test of the forward one.
SpatialPair_reverse_on_forward(symbol, buy_exchange, sell_exchange, qb, qs, min_profit_percentage) ==
    LET buy_price  == qb.ask
        sell_price == qs.bid
        profit_percentage ==
            FMul(FDiv(FSub(sell_price, buy_price), buy_price), Flt(100))
        reverse_profit ==
            FMul(FDiv(FSub(buy_price, sell_price), sell_price), Flt(100))
        fwd == IF ExceedsThreshold(profit_percentage, min_profit_percentage)
               THEN << [type |-> "spatial", symbol |-> symbol,
                        buy_exchange |-> buy_exchange, sell_exchange |-> sell_exchange,
                        buy_price |-> buy_price, sell_price |-> sell_price,
                        profit_percentage |-> profit_percentage] >>
               ELSE <<>>
        rev == IF ExceedsThreshold(profit_percentage, min_profit_percentage)
               THEN << [type |-> "spatial", symbol |-> symbol,
                        buy_exchange |-> sell_exchange, sell_exchange |-> buy_exchange,
                        buy_price |-> qs.ask, sell_price |-> qb.bid,
                        profit_percentage |-> reverse_profit] >>
               ELSE <<>>
    IN  fwd \o rev

\* The body of the inner loop for one pair (buy_exchange, sell_exchange).
SpatialPair(symbol, buy_exchange, sell_exchange, qb, qs, min_profit_percentage) ==
    LET buy_price  == qb.ask
        sell_price == qs.bid
        profit_percentage ==
            FMul(FDiv(FSub(sell_price, buy_price), buy_price), Flt(100))
        reverse_profit ==
            FMul(FDiv(FSub(buy_price, sell_price), sell_price), Flt(100))
        fwd == IF ExceedsThreshold(profit_percentage, min_profit_percentage)
               THEN << [type |-> "spatial", symbol |-> symbol,
                        buy_exchange |-> buy_exchange, sell_exchange |-> sell_exchange,
                        buy_price |-> buy_price, sell_price |-> sell_price,
                        profit_percentage |-> profit_percentage] >>
               ELSE <<>>
        rev == IF ExceedsThreshold(reverse_profit, min_profit_percentage)
               THEN << [type |-> "spatial", symbol |-> symbol,
                        buy_exchange |-> sell_exchange, sell_exchange |-> buy_exchange,
                        buy_price |-> qs.ask, sell_price |-> qb.bid,
                        profit_percentage |-> reverse_profit] >>
               ELSE <<>>
    IN  fwd \o rev

\* The nested loops over exchanges_list[i], exchanges_list[j], j > i.
RECURSIVE SpatialLoop(_, _, _, _, _, _, _)
SpatialLoop(ds, symbol, exchanges_list, min_profit_percentage, t, i, j) ==
    IF i > Len(exchanges_list) THEN <<>>
    ELSE IF j > Len(exchanges_list)
    THEN SpatialLoop(ds, symbol, exchanges_list, min_profit_percentage, t, i + 1, i + 2)
    ELSE
      LET mv == config.min_volume_usd_spatial
      IN  SpatialPair(symbol, exchanges_list[i], exchanges_list[j],
                      PriceOf(ds, exchanges_list[i], symbol, mv, t),
                      PriceOf(ds, exchanges_list[j], symbol, mv, t),
                      min_profit_percentage)
          \o SpatialLoop(ds, symbol, exchanges_list, min_profit_percentage, t, i, j + 1)

\* detect_spatial_arbitrage_cross_exchange(symbol, exchanges, min_profit_percentage)
detect_spatial_arbitrage_cross_exchange(ds, symbol, exchanges, min_profit_percentage, t) ==
    LET with_price ==
            {e \in Exchanges :
                PriceOf(ds, e, symbol, config.min_volume_usd_spatial, t) # None}
        exchanges_list == FilterSeq(exchanges, with_price)
    IN  IF Len(exchanges_list) < 2 THEN <<>>
        ELSE SpatialLoop(ds, symbol, exchanges_list, min_profit_percentage, t, 1, 2)

\* The store after data_store[e][s] was evaluated for every e of `es` and
\* every s of the list `syms`.
RECURSIVE TouchAll(_, _, _, _, _)
TouchAll(ds, es, syms, i, j) ==
    IF i > Len(es) THEN ds
    ELSE IF j > Len(syms) THEN TouchAll(ds, es, syms, i + 1, 1)
    ELSE TouchAll(Touch(ds, es[i], syms[j]), es, syms, i, j + 1)

\* The triangular scans of exchanges[i..], in order.
RECURSIVE TriangularScans(_, _, _, _)
TriangularScans(ds, exchanges, t, i) ==
    IF i > Len(exchanges) THEN <<>>
    ELSE
      LET exchange_symbols ==
              {s \in SeqRange(get_all_symbols) : Deque(ds, exchanges[i], s) # <<>>}
      IN  detect_triangular_arbitrage_single_exchange(
              ds, exchanges[i], exchange_symbols, config.min_profit_percentage, t)
          \o TriangularScans(ds, exchanges, t, i + 1)

\* The spatial scans of all_symbols[i..], in order.
RECURSIVE SpatialScans(_, _, _, _)
SpatialScans(ds, exchanges, t, i) ==
    IF i > Len(get_all_symbols) THEN <<>>
    ELSE detect_spatial_arbitrage_cross_exchange(
             ds, get_all_symbols[i], exchanges, config.min_profit_percentage, t)
         \o SpatialScans(ds, exchanges, t, i + 1)

\* Variant: the cycle drops the oldest entry of every buffer.
StoreAfterCycle_evicts(ds) ==
    LET d == TouchAll(ds, ds.keys, get_all_symbols, 1, 1)
    IN  [d EXCEPT !.deques =
            [e \in DOMAIN d.deques |->
                [s \in DOMAIN d.deques[e] |->
                    IF d.deques[e][s] = <<>> THEN <<>> ELSE Tail(d.deques[e][s])]]]

\* The store one iteration of detect_arbitrage leaves behind: the lookups
\* data_store[exchange_id][symbol] of the scans go through the defaultdicts.
StoreAfterCycle(ds) == TouchAll(ds, ds.keys, get_all_symbols, 1, 1)

-----------------------------------------------------------------------------
(* Bounds of the model.                                                    *)

MaxTime == 1        \* the clock runs from 0 to MaxTime
MaxEntries == 1     \* entries held by the whole store in the system model
MaxPollErrors == 2  \* errors the outer handler of one polling loop catches

\* The number of entries the store holds.
RECURSIVE CountFrom(_, _, _)
CountFrom(ds, i, j) ==
    IF i > Len(exchange_ids) THEN 0
    ELSE IF j > Len(SymbolList) THEN CountFrom(ds, i + 1, 1)
    ELSE Len(Deque(ds, exchange_ids[i], SymbolList[j])) + CountFrom(ds, i, j + 1)

TotalEntries(ds) == CountFrom(ds, 1, 1)

-----------------------------------------------------------------------------
(* The feed supervisors (data_manager.monitor_exchange_with_retry).        *)

max_retries == 5

\* One ticker and one order-book result per symbol, as gather returns them.
BookSnapshot(sym) == Ticker(sym, Absent, Absent, Absent, Absent)

\* Ticker results the system model feeds in: a valid quote, a crossed book,
\* a NaN bid, a result without 'symbol', a failed subscription, and None.
FeedTickers(sym) ==
    { Ticker(sym, Num(1), Num(2), Num(1), Num(1)),
      Ticker(sym, Num(2), Num(1), Num(1), Num(1)),
      Ticker(sym, NaNVal, Num(1), Num(1), Num(1)),
      Ticker(NoSymbol, Num(1), Num(2), Num(1), Num(1)),
      RawException,
      RawNone }

\* What watch_ticker(symbol) and watch_order_book(symbol) of one round yield.
StreamPairs(sym) ==
    {<<tk, BookSnapshot(sym)>> : tk \in FeedTickers(sym)}
    \cup {<<Ticker(sym, Num(1), Num(2), Num(1), Num(1)), RawException>>}

\* The possible results of one gather for the symbol list: the ticker and
\* the order book of each symbol, in list order.
RECURSIVE RoundResults(_)
RoundResults(symbols) ==
    IF symbols = <<>> THEN {<<>>}
    ELSE {p \o r : p \in StreamPairs(Head(symbols)), r \in RoundResults(Tail(symbols))}

\* Variant: a rejected quote is stored as an entry without data.
record_rejected(ds, e, s, ts, enhanced_data) ==
    StoreAppend(ds, e, s, ts, enhanced_data)

\* `if enhanced_data: data_store[exchange_id][symbol].append((ts, enhanced_data))`
record(ds, e, s, ts, enhanced_data) ==
    IF enhanced_data # None THEN StoreAppend(ds, e, s, ts, enhanced_data) ELSE ds

\* Variant: a failed subscription ends the round in the except branch.
RECURSIVE ProcessResults_fatal(_, _, _, _, _)
ProcessResults_fatal(ds, exchange_id, results, t, i) ==
    IF i > Len(results) THEN [store |-> ds, raised |-> FALSE, accepted |-> <<>>]
    ELSE
      LET result == results[i]
          enhanced_data == validate_and_enhance_price_data(result, exchange_id, result.symbol)
          rest == ProcessResults_fatal(
                      IF result.symbol = NoSymbol THEN ds
                      ELSE record(ds, exchange_id, result.symbol, t, enhanced_data),
                      exchange_id, results, t, i + 1)
      IN  IF result.kind \in {"exception", "none"}
          THEN [store |-> ds, raised |-> TRUE, accepted |-> <<>>]
          ELSE IF result.symbol # NoSymbol /\ enhanced_data # None
          THEN [rest EXCEPT !.accepted = << <<result.symbol, t, enhanced_data>> >> \o @]
          ELSE rest

\* The loop `for result in results` of monitor_websocket from results[i] on:
\* the store it leaves, whether it raised (which ends the streaming), and the
\* quotes it recorded, in order.
RECURSIVE ProcessResults(_, _, _, _, _)
ProcessResults(ds, exchange_id, results, t, i) ==
    IF i > Len(results) THEN [store |-> ds, raised |-> FALSE, accepted |-> <<>>]
    ELSE
      LET result == results[i]
          enhanced_data == validate_and_enhance_price_data(result, exchange_id, result.symbol)
          skipped == ProcessResults(ds, exchange_id, results, t, i + 1)
          rest == ProcessResults(record(ds, exchange_id, result.symbol, t, enhanced_data),
                                 exchange_id, results, t, i + 1)
      IN  IF result.kind = "exception"            \* isinstance(result, Exception)
          THEN skipped
          ELSE IF result.kind = "none"            \* 'symbol' in None raises TypeError
          THEN [store |-> ds, raised |-> TRUE, accepted |-> <<>>]
          ELSE IF result.symbol = NoSymbol
          THEN skipped
          ELSE IF enhanced_data # None
          THEN [rest EXCEPT !.accepted = << <<result.symbol, t, enhanced_data>> >> \o @]
          ELSE rest

\* ExchangeWrapper: whether the object exists (`wrapper` is not None), whether
\* self.exchange is set, and self._closed; of the exchange object it holds:
\* whether close() was called on it and how that ended, and whether
\* load_markets() was called on it.
NoWrapper ==
    [made |-> FALSE, exchange |-> FALSE, closed |-> FALSE, held |-> "none",
     loaded |-> FALSE]

\* ExchangeWrapper.__init__
NewWrapper ==
    [made |-> TRUE, exchange |-> FALSE, closed |-> FALSE, held |-> "none",
     loaded |-> FALSE]

\* How __aenter__ ends: it raises when the exchange object is created, when
\* sandbox mode is not supported, or in load_markets(); or it returns.
AenterRaises == {"create", "sandbox", "load_markets"}
AenterOutcomes == AenterRaises \cup {"ok"}

\* Variant: the markets are loaded before sandbox mode is checked.
aenter_loads_first(w, outcome) ==
    IF outcome = "create" THEN w
    ELSE [w EXCEPT !.exchange = TRUE, !.held = "open", !.loaded = TRUE]

\* ExchangeWrapper.__aenter__: self.exchange is a new exchange object unless
\* its creation raised; load_markets() is reached unless sandbox mode was
\* asked for and is not supported; self._closed is left as it is.
aenter(w, outcome) ==
    IF outcome = "create" THEN w
    ELSE [w EXCEPT !.exchange = TRUE, !.held = "open",
                   !.loaded = (outcome # "sandbox")]

\* Variant: close() is called whenever an exchange is held.
aexit_ignores_closed(w, close_raises) ==
    IF w.exchange
    THEN [wrapper |-> [w EXCEPT !.closed = ~close_raises,
                                !.held = IF close_raises THEN "close raised"
                                         ELSE "closed"],
          close_calls |-> 1, raised |-> close_raises]
    ELSE [wrapper |-> w, close_calls |-> 0, raised |-> FALSE]

\* ExchangeWrapper.__aexit__: the wrapper afterwards, the calls of
\* exchange.close() it made, and whether it raised (close() raised).
aexit(w, close_raises) ==
    IF w.exchange /\ ~w.closed
    THEN [wrapper |-> [w EXCEPT !.closed = ~close_raises,
                                !.held = IF close_raises THEN "close raised"
                                         ELSE "closed"],
          close_calls |-> 1, raised |-> close_raises]
    ELSE [wrapper |-> w, close_calls |-> 0, raised |-> FALSE]

\* exchange.has as far as the wrapper reads it.
Capabilities == [watchTicker : BOOLEAN, watchOrderBook : BOOLEAN]
NoCapabilities == [watchTicker |-> FALSE, watchOrderBook |-> FALSE]

\* ExchangeWrapper.get_websocket_support
get_websocket_support(w, has) ==
    IF ~w.exchange THEN [ticker |-> FALSE, orderbook |-> FALSE]
    ELSE [ticker |-> has.watchTicker, orderbook |-> has.watchOrderBook]

\* Variant: one of the two capabilities is enough.
supports_websocket_either(w, has) ==
    get_websocket_support(w, has).ticker \/ get_websocket_support(w, has).orderbook

\* ExchangeWrapper.supports_websocket
supports_websocket(w, has) ==
    get_websocket_support(w, has).ticker /\ get_websocket_support(w, has).orderbook

Min(a, b) == IF a < b THEN a ELSE b

\* Variant: the wait is not capped.
backoff_wait_uncapped(attempt) == (2 ^ attempt) * 10

\* Variant: the wait grows by 10 seconds per attempt.
backoff_wait_linear(attempt) == Min(300, (attempt + 1) * 10)

\* wait_time = min(300, (2 ** attempt) * 10)
backoff_wait(attempt) == Min(300, (2 ^ attempt) * 10)

\* The quotes the store holds for exchange e, as a sequence of
\* <<symbol, timestamp, quote>>: symbol by symbol from SymbolList[i] on.
RECURSIVE LogOf(_, _, _)
LogOf(ds, e, i) ==
    IF i > Len(SymbolList) THEN <<>>
    ELSE [k \in DOMAIN Deque(ds, e, SymbolList[i]) |->
             <<SymbolList[i], Deque(ds, e, SymbolList[i])[k][1],
               Deque(ds, e, SymbolList[i])[k][2]>>]
         \o LogOf(ds, e, i + 1)

\* What the feed delivered in the last ingestion step of a supervisor; kept
\* only where the configuration of the model asks for it.
NoResults == <<>>
Observed(results) == IF config.observe_feed THEN results ELSE NoResults

\* poll_exchange_rest_api is entered: with symbols, each pass of its loop
\* awaits; without, `while True` runs an empty `for` and never awaits.
poll_pc(symbols) == IF symbols = <<>> THEN "spinning" ELSE "polling"

\* The state of one monitor_exchange_with_retry task.  pc, attempt and idx are
\* its position; task is the state of the asyncio task; symbols and
\* max_retries are its arguments; waits are the backoff sleeps so far and
\* calls the calls of monitor_exchange so far.  Of the current call of
\* monitor_exchange: wrapper, the calls of __aexit__ on it, the calls of
\* close() on its exchange and how many of them raised, the capabilities of
\* the exchange, the modes entered, the errors that ended the streaming loop,
\* the errors caught by the outer handler of the polling loop and the interval
\* handed to poll_exchange_rest_api.  open counts the exchange objects of
\* this exchange id that were created and on which close() was not called.
\* log is the sequence of quotes recorded for the exchange, in the order in
\* which they were received, last what the feed delivered last, and pass the
\* fetches and sleeps of the current pass of the polling loop.
Supervisor(e, pc, attempt) ==
    LET connected == pc \in {"streaming", "polling"}
    IN  [pc |-> pc, attempt |-> attempt, idx |-> 1,
         task |-> IF pc = "failed" THEN "returned" ELSE "running",
         symbols |-> get_exchange_symbols(e),
         max_retries |-> max_retries,
         waits |-> [i \in 1..attempt |-> backoff_wait(i - 1)],
         calls |-> attempt + 1,
         wrapper |-> IF connected THEN aenter(NewWrapper, "ok") ELSE NoWrapper,
         exits |-> 0, close_calls |-> 0, close_errors |-> 0,
         open |-> IF connected THEN 1 ELSE 0,
         has |-> IF pc = "streaming"
                 THEN [watchTicker |-> TRUE, watchOrderBook |-> TRUE]
                 ELSE NoCapabilities,
         entered |-> IF connected THEN <<pc>> ELSE <<>>,
         stream_errors |-> 0, poll_errors |-> 0,
         poll_interval |-> IF pc = "polling" THEN get_exchange_poll_interval(e) ELSE 0,
         log |-> LogOf(data_store, e, 1),
         last |-> NoResults, pass |-> NoResults, round |-> <<>>]

\* The event loop runs one task at a time, up to its next await: while a task
\* spins without awaiting, no other task runs.
LoopFree == \A e \in DOMAIN sup : sup[e].pc # "spinning"

\* Variant: the handle is left as it is.
monitor_exchange_finally_skipped(s, close_raises) == s

\* The finally block of monitor_exchange: `if wrapper:` __aexit__ is awaited
\* and what it raises is logged.
monitor_exchange_finally(s, close_raises) ==
    IF s.wrapper.made
    THEN LET r == aexit(s.wrapper, close_raises)
         IN  [s EXCEPT !.wrapper = r.wrapper,
                       !.exits = @ + 1,
                       !.close_calls = @ + r.close_calls,
                       !.close_errors = @ + (IF r.raised THEN 1 ELSE 0),
                       !.open = @ - (IF r.close_calls = 1 /\ s.wrapper.held = "open"
                                     THEN 1 ELSE 0)]
    ELSE s

\* Variant: the last failure is raised to the caller.
retry_except_reraises(s) ==
    IF s.attempt < s.max_retries - 1
    THEN [s EXCEPT !.pc = "backoff", !.waits = Append(@, backoff_wait(s.attempt))]
    ELSE [s EXCEPT !.pc = "failed", !.task = "raised"]

\* The except branch of monitor_exchange_with_retry: sleep wait_time, or give
\* up, fall out of the loop and return.
retry_except(s) ==
    IF s.attempt < s.max_retries - 1
    THEN [s EXCEPT !.pc = "backoff", !.waits = Append(@, backoff_wait(s.attempt))]
    ELSE [s EXCEPT !.pc = "failed", !.task = "returned"]

\* Variant: the stream is started again.
websocket_except_restream(s, exchange_id) ==
    [s EXCEPT !.pc = "streaming", !.entered = Append(@, "streaming"), !.idx = 1]

\* The except branch of monitor_websocket: poll_exchange_rest_api is awaited
\* with the configured interval.
websocket_except(s, exchange_id) ==
    [s EXCEPT !.pc = poll_pc(s.symbols), !.entered = Append(@, "polling"), !.idx = 1,
              !.poll_interval = get_exchange_poll_interval(exchange_id)]

\* Variant: a failed fetch sends the supervisor back to the stream.
poll_except_restream(s) ==
    [s EXCEPT !.pc = "streaming", !.entered = Append(@, "streaming")]

\* Variant: a failed fetch ends the pass.
poll_except_ends_pass(s) == [s EXCEPT !.idx = Len(s.symbols)]

\* The except branch around fetch_ticker in poll_exchange_rest_api: the error
\* is logged and the loop goes on.
poll_except(s) == s

\* A task of main() is cancelled at an await inside monitor_exchange.
cancelled(s) ==
    [monitor_exchange_finally(s, FALSE) EXCEPT !.task = "cancelled"]

\* `await asyncio.gather(*tasks)` in main(), run by asyncio.run: the first
\* exception of a task ends the join and main(), and the tasks still running
\* are cancelled; the join returns when every task has returned.
main_join(s, o) ==
    IF \E e \in DOMAIN s : s[e].task = "raised"
    THEN [sup |-> [e \in DOMAIN s |->
                     IF s[e].task = "running" THEN cancelled(s[e]) ELSE s[e]],
          orch |-> [o EXCEPT !.join = "raised", !.detector = "cancelled"]]
    ELSE IF o.detector = "returned" /\ \A e \in DOMAIN s : s[e].task = "returned"
    THEN [sup |-> s, orch |-> [o EXCEPT !.join = "returned"]]
    ELSE [sup |-> s, orch |-> o]

\* The coroutines main() appends to tasks.
supervisor_task(exchange_id, symbols, use_testnet) ==
    [coroutine |-> "monitor_exchange_with_retry", exchange_id |-> exchange_id,
     symbols |-> symbols, use_testnet |-> use_testnet]
detector_task ==
    [coroutine |-> "detect_arbitrage", exchange_id |-> "", symbols |-> <<>>,
     use_testnet |-> FALSE]

\* config.exchange_ids of a configuration: the keys of its 'exchanges'.
configured_ids(cfg) == FilterSeq(exchange_ids, DOMAIN cfg.exchanges)

\* Variant: every supervisor is given the symbols of all exchanges.
main_tasks_all_symbols(cfg) ==
    [i \in 1..Len(configured_ids(cfg)) |->
        supervisor_task(configured_ids(cfg)[i],
                        FilterSeq(SymbolList,
                                  UNION {SeqRange(cfg.exchanges[e]) : e \in DOMAIN cfg.exchanges}),
                        cfg.testnet_enabled)]
    \o <<detector_task>>

\* The list `tasks` main() hands to asyncio.gather.
main_tasks(cfg) ==
    [i \in 1..Len(configured_ids(cfg)) |->
        supervisor_task(configured_ids(cfg)[i],
                        cfg.exchanges[configured_ids(cfg)[i]],
                        cfg.testnet_enabled)]
    \o <<detector_task>>

\* main() has not run yet.
NotStarted == [join |-> "not started", detector |-> "not started", cycle |-> 0,
               tasks |-> <<>>]

\* main() has started the tasks and awaits the gather; cycle is the parity
\* of the number of detection cycles completed.
Joining == [join |-> "joining", detector |-> "running", cycle |-> 0,
            tasks |-> main_tasks(config)]

\* main(): one monitor_exchange_with_retry per configured exchange and one
\* detect_arbitrage are handed to asyncio.gather.
Main ==
    /\ orch.join = "not started"
    /\ orch' = Joining
    /\ sup' = [e \in DOMAIN config.exchanges |-> Supervisor(e, "connecting", 0)]
    /\ UNCHANGED <<data_store, now, config, opportunities, lookup, raw_in, validated>>

\* monitor_exchange: the wrapper is created and entered, and the attempt goes
\* on in streaming or polling mode according to supports_websocket().
ConnectOk(e, has) ==
    /\ LoopFree
    /\ sup[e].task = "running"
    /\ sup[e].pc = "connecting"
    /\ LET w == aenter(NewWrapper, "ok")
           ws == supports_websocket(w, has)
       IN  sup' = [sup EXCEPT ![e] =
                     [@ EXCEPT !.wrapper = w, !.open = @ + 1, !.has = has,
                               !.pc = IF ws THEN "streaming" ELSE poll_pc(sup[e].symbols),
                               !.entered = <<IF ws THEN "streaming" ELSE "polling">>,
                               !.idx = 1,
                               !.poll_interval =
                                   IF ws THEN 0 ELSE get_exchange_poll_interval(e)]]
    /\ UNCHANGED <<data_store, now, config, opportunities, lookup, raw_in, validated, orch>>

\* monitor_exchange: __aenter__ raises; the exception is logged and raised
\* again, the finally block runs, and the except branch of
\* monitor_exchange_with_retry decides between backoff and giving up.
ConnectFail(e, stage, close_raises) ==
    /\ LoopFree
    /\ sup[e].task = "running"
    /\ sup[e].pc = "connecting"
    /\ (stage = "sandbox") => config.testnet_enabled
    /\ LET w == aenter(NewWrapper, stage)
           entered == [sup[e] EXCEPT !.wrapper = w,
                                     !.open = @ + (IF w.exchange THEN 1 ELSE 0)]
           left == retry_except(monitor_exchange_finally(entered, close_raises))
           joined == main_join([sup EXCEPT ![e] = left], orch)
       IN  /\ sup' = joined.sup
           /\ orch' = joined.orch
    /\ UNCHANGED <<data_store, now, config, opportunities, lookup, raw_in, validated>>

\* The backoff sleep is over: the next iteration of
\* `for attempt in range(max_retries)` calls monitor_exchange again.
Retry(e) ==
    /\ LoopFree
    /\ sup[e].task = "running"
    /\ sup[e].pc = "backoff"
    /\ sup' = [sup EXCEPT ![e] =
                 [@ EXCEPT !.pc = "connecting", !.attempt = @ + 1, !.calls = @ + 1,
                           !.wrapper = NoWrapper, !.exits = 0,
                           !.close_calls = 0, !.close_errors = 0,
                           !.has = NoCapabilities, !.entered = <<>>,
                           !.stream_errors = 0, !.poll_errors = 0,
                           !.poll_interval = 0, !.last = NoResults,
                           !.pass = NoResults]]
    /\ UNCHANGED <<data_store, now, config, opportunities, lookup, raw_in, validated, orch>>

\* One iteration of the while loop of monitor_websocket over the results the
\* gather returned; an exception of the loop body ends it in the except
\* branch.
StreamRoundOf(e, results) ==
    /\ LoopFree
    /\ sup[e].task = "running"
    /\ sup[e].pc = "streaming"
    /\ LET out == ProcessResults(data_store, e, results, now, 1)
           seen == [sup[e] EXCEPT !.log = @ \o out.accepted,
                                  !.last = Observed(results), !.round = <<>>]
       IN  /\ data_store' = out.store
           /\ sup' = [sup EXCEPT ![e] =
                        IF out.raised
                        THEN websocket_except([seen EXCEPT !.stream_errors = @ + 1], e)
                        ELSE [seen EXCEPT !.idx = 1]]
    /\ UNCHANGED <<now, config, opportunities, lookup, raw_in, validated, orch>>

StreamRound(e) ==
    \E results \in RoundResults(sup[e].symbols) : StreamRoundOf(e, results)

\* The awaitables one iteration of monitor_websocket hands to gather: for
\* each symbol watch_ticker(symbol), then watch_order_book(symbol, limit=10).
RECURSIVE gather_tasks(_, _)
gather_tasks(symbols, t) ==
    IF symbols = <<>> THEN <<>>
    ELSE << [op |-> "watch_ticker", symbol |-> Head(symbols), limit |-> 0,
             state |-> "pending", result |-> RawException, at |-> t],
            [op |-> "watch_order_book", symbol |-> Head(symbols), limit |-> 10,
             state |-> "pending", result |-> RawException, at |-> t] >>
         \o gather_tasks(Tail(symbols), t)

\* What one subscription can yield.
SubscriptionResults(task) ==
    IF task.op = "watch_ticker" THEN FeedTickers(task.symbol)
    ELSE {BookSnapshot(task.symbol), RawException}

\* Variant: the gather returns with its first completed awaitable.
gather_returns_first_completed(round) ==
    \E i \in DOMAIN round : round[i].state = "done"

\* `await asyncio.gather(*tasks, return_exceptions=True)` returns when every
\* awaitable has a result or an exception.
gather_returns(round) == \A i \in DOMAIN round : round[i].state = "done"

\* The try block of monitor_websocket up to the await: the awaitables are
\* created and handed to gather.
GatherStart(e) ==
    /\ LoopFree
    /\ sup[e].task = "running"
    /\ sup[e].pc = "streaming"
    /\ sup[e].round = <<>>
    /\ sup[e].symbols # <<>>
    /\ sup' = [sup EXCEPT ![e].round = gather_tasks(sup[e].symbols, now)]
    /\ UNCHANGED <<data_store, now, config, opportunities, lookup, raw_in, validated, orch>>

\* The i-th awaitable of the gather in flight completes with a result or
\* fails with an exception.
SubscriptionDone(e, i, result) ==
    /\ sup[e].pc = "streaming"
    /\ i \in DOMAIN sup[e].round
    /\ sup[e].round[i].state = "pending"
    /\ result \in SubscriptionResults(sup[e].round[i])
    /\ sup' = [sup EXCEPT ![e].round[i] =
                 [@ EXCEPT !.state = "done", !.result = result, !.at = now]]
    /\ UNCHANGED <<data_store, now, config, opportunities, lookup, raw_in, validated, orch>>

\* The gather returns and the rest of the iteration runs on its results.
GatherReturn(e) ==
    /\ sup[e].round # <<>>
    /\ gather_returns(sup[e].round)
    /\ StreamRoundOf(e, [i \in DOMAIN sup[e].round |-> sup[e].round[i].result])

\* The transport raises inside the try of monitor_websocket, which needs a
\* subscription: the except branch falls back to poll_exchange_rest_api.
StreamFail(e) ==
    /\ LoopFree
    /\ sup[e].task = "running"
    /\ sup[e].pc = "streaming"
    /\ sup[e].symbols # <<>>
    /\ sup' = [sup EXCEPT ![e] =
                 websocket_except([@ EXCEPT !.stream_errors = @ + 1], e)]
    /\ UNCHANGED <<data_store, now, config, opportunities, lookup, raw_in, validated, orch>>

\* The outer handler of poll_exchange_rest_api: the error is logged, the loop
\* sleeps 5 seconds and starts the symbol list again.
poll_outer_except(s) == [s EXCEPT !.poll_errors = @ + 1, !.idx = 1]

\* One pass of the body of `for symbol in symbols` of poll_exchange_rest_api
\* in which fetch_ticker yields `ticker`, up to the end of the sleep that
\* follows it; a sleep that raises ends the pass in the outer handler.
PollFetchOf(e, ticker) ==
    LET symbols == sup[e].symbols
        symbol == symbols[sup[e].idx]
        enhanced_data == validate_and_enhance_price_data(ticker, e, symbol)
        accepted == ticker.kind # "exception" /\ enhanced_data # None
        events == << [op |-> "fetch_ticker", symbol |-> symbol, seconds |-> 0,
                      raised |-> ticker.kind = "exception"],
                     [op |-> "sleep", symbol |-> symbol,
                      seconds |-> sup[e].poll_interval, raised |-> sleep_raises(e)] >>
        fetched == [sup[e] EXCEPT !.log = IF accepted
                                          THEN Append(@, <<symbol, now, enhanced_data>>)
                                          ELSE @,
                                  !.last = Observed(<<ticker>>),
                                  !.pass = Observed((IF sup[e].idx = 1 THEN <<>> ELSE @)
                                                    \o events)]
        handled == IF ticker.kind = "exception" THEN poll_except(fetched) ELSE fetched
        next == IF sleep_raises(e) THEN poll_outer_except(handled)
                ELSE [handled EXCEPT !.idx = IF @ = Len(symbols) THEN 1 ELSE @ + 1]
    IN  /\ LoopFree
        /\ sup[e].task = "running"
        /\ sup[e].pc = "polling"
        /\ data_store' = IF ticker.kind = "exception" THEN data_store
                         ELSE record(data_store, e, symbol, now, enhanced_data)
        /\ sup' = [sup EXCEPT ![e] = next]
        /\ UNCHANGED <<now, config, opportunities, lookup, raw_in, validated, orch>>

PollFetch(e) ==
    /\ sup[e].pc = "polling"
    /\ \E ticker \in FeedTickers(sup[e].symbols[sup[e].idx]) : PollFetchOf(e, ticker)

\* time.time() moves on.
Tick ==
    /\ now' = now + 1
    /\ UNCHANGED <<data_store, config, sup, opportunities, lookup, raw_in, validated, orch>>

\* One iteration of the while loop of detect_arbitrage.
DetectCycle ==
    LET exchanges == data_store.keys
    IN  /\ LoopFree
        /\ orch.detector = "running"
        /\ orch' = [orch EXCEPT !.cycle = 1 - @]
        /\ opportunities' = TriangularScans(data_store, exchanges, now, 1)
                            \o SpatialScans(data_store, exchanges, now, 1)
        /\ data_store' = StoreAfterCycle(data_store)
        /\ UNCHANGED <<now, config, sup, lookup, raw_in, validated>>

\* A caller (get_price_data, a scan) asks for the tradeable price of a key.
GetTradeablePrice(e, s, max_age_seconds, min_volume_usd) ==
    /\ LoopFree
    /\ lookup' = [called |-> TRUE, exchange_id |-> e, symbol |-> s,
                  max_age_seconds |-> max_age_seconds,
                  min_volume_usd |-> min_volume_usd,
                  result |-> get_tradeable_price(data_store, e, s, max_age_seconds,
                                                 min_volume_usd, now)]
    /\ data_store' = Touch(data_store, e, s)
    /\ UNCHANGED <<now, config, sup, opportunities, raw_in, validated, orch>>

\* validate_and_enhance_price_data is applied to the raw quote raw_in.
Validate ==
    /\ validated = [pending |-> TRUE]
    /\ validated' = validate_and_enhance_price_data(
                        raw_in, "E1",
                        IF raw_in.symbol = NoSymbol THEN BTC_USDT ELSE raw_in.symbol)
    /\ UNCHANGED <<data_store, now, config, sup, opportunities, lookup, raw_in, orch>>

\* Before the first iteration of detect_arbitrage there is no all_opportunities.
NoCycle == << [type |-> "no cycle yet"] >>

NoLookup == [called |-> FALSE]
Pending == [pending |-> TRUE]

SystemConfigs ==
    { [exchanges |-> [e \in Exchanges |->
                        IF e = "E1" THEN <<BTC_USDT, ETH_BTC>> ELSE <<BTC_USDT>>],
       min_profit_percentage |-> 0, max_age_seconds |-> 1,
       min_volume_usd_triangular |-> 5, min_volume_usd_spatial |-> 5,
       poll_interval_seconds |-> NoPollIntervals, testnet_enabled |-> FALSE,
       observe_feed |-> FALSE] }

Init ==
    /\ data_store = EmptyStore
    /\ now = 0
    /\ config \in SystemConfigs
    /\ sup = [e \in Exchanges |-> Supervisor(e, "connecting", 0)]
    /\ opportunities = NoCycle
    /\ lookup = NoLookup
    /\ raw_in = RawNone
    /\ validated = Pending
    /\ orch = Joining

Next ==
    \/ \E e \in Exchanges : \E has \in Capabilities : ConnectOk(e, has)
    \/ \E e \in Exchanges : \E stage \in AenterRaises, close_raises \in BOOLEAN :
            ConnectFail(e, stage, close_raises)
    \/ \E e \in Exchanges : Retry(e)
    \/ \E e \in Exchanges : StreamRound(e) /\ TotalEntries(data_store') <= MaxEntries
    \/ \E e \in Exchanges : StreamFail(e)
    \/ \E e \in Exchanges :
          PollFetch(e) /\ TotalEntries(data_store') <= MaxEntries
                       /\ sup'[e].poll_errors <= MaxPollErrors
    \/ Tick /\ now' <= MaxTime
    \/ DetectCycle

Spec == Init /\ [][Next]_vars

-----------------------------------------------------------------------------
(* The validator on its own: every raw quote of a bounded family.          *)

MaxPrice == 2       \* raw prices range over -1..MaxPrice
MaxVolume == 1      \* raw volumes range over 0..MaxVolume

RawPrices ==
    {Absent, Null, BadStr, NaNVal, NumStr(MaxPrice)} \cup {Num(n) : n \in -1..MaxPrice}
RawVolumes ==
    {Absent, Null, BadStr, NaNVal} \cup {Num(n) : n \in 0..MaxVolume}

RawQuotes ==
    {RawNone, EmptyDict}
    \cup {Ticker(sym, b, a, bv, av) :
            sym \in {BTC_USDT, NoSymbol}, b \in RawPrices, a \in RawPrices,
            bv \in RawVolumes, av \in RawVolumes}

InitValidate ==
    /\ data_store = EmptyStore
    /\ now = 0
    /\ config \in SystemConfigs
    /\ sup = [e \in Exchanges |-> Supervisor(e, "connecting", 0)]
    /\ opportunities = NoCycle
    /\ lookup = NoLookup
    /\ raw_in \in RawQuotes
    /\ validated = Pending
    /\ orch = Joining

NextValidate == Validate

SpecValidate == InitValidate /\ [][NextValidate]_vars

-----------------------------------------------------------------------------
(* A deque near its capacity: exchange E1 polls one symbol into a deque    *)
(* that earlier polling has filled.                                        *)

MaxRingAppends == 3     \* entries recorded after the initial state

RingConfig ==
    [exchanges |-> [e \in Exchanges |-> IF e = "E1" THEN <<BTC_USDT>> ELSE <<>>],
     min_profit_percentage |-> 0, max_age_seconds |-> 1,
     min_volume_usd_triangular |-> 5, min_volume_usd_spatial |-> 5,
       poll_interval_seconds |-> NoPollIntervals, testnet_enabled |-> FALSE,
       observe_feed |-> FALSE]

\* The i-th quote recorded at time 0: told apart by its bid volume.
PrefillQuote(i) ==
    validate_and_enhance_price_data(
        Ticker(BTC_USDT, Num(1), Num(2), Num(i), Num(1)), "E1", BTC_USDT)

\* The deque after n quotes were recorded at time 0, n <= MAXLEN.
PrefillDeque(n) == [i \in 1..n |-> <<0, PrefillQuote(i)>>]

\* The store after n quotes were recorded for (E1, BTC/USDT) at time 0.
Prefilled(n) ==
    [keys |-> <<"E1">>, deques |-> ("E1" :> (BTC_USDT :> PrefillDeque(n)))]

RingPrefills == {0, MAXLEN - 1, MAXLEN}

\* The entries of the store recorded after time 0.
NewEntries(ds) ==
    Cardinality({i \in DOMAIN Deque(ds, "E1", BTC_USDT) :
                    Deque(ds, "E1", BTC_USDT)[i][1] > 0})

InitRing ==
    /\ data_store \in {Prefilled(n) : n \in RingPrefills}
    /\ now = 1
    /\ config = RingConfig
    /\ sup = [e \in Exchanges |->
                IF e = "E1" THEN Supervisor(e, "polling", 0)
                ELSE Supervisor(e, "failed", max_retries - 1)]
    /\ opportunities = NoCycle
    /\ lookup = NoLookup
    /\ raw_in = RawNone
    /\ validated = Pending
    /\ orch = Joining

NextRing ==
    \/ PollFetch("E1") /\ NewEntries(data_store') <= MaxRingAppends
    \/ Tick /\ now' <= MaxTime + 2

SpecRing == InitRing /\ [][NextRing]_vars

-----------------------------------------------------------------------------
(* The lookups and the scans over a bounded family of stores that          *)
(* ingestion on exchange E1 can leave behind.                              *)

MaxScanTime == 2        \* the scans run at times 1..MaxScanTime

ScanConfigs ==
    { [exchanges |-> [e \in Exchanges |->
                        IF e = "E1" THEN SymbolList ELSE <<BTC_USDT>>],
       min_profit_percentage |-> p, max_age_seconds |-> 1,
       min_volume_usd_triangular |-> 5, min_volume_usd_spatial |-> 5,
       poll_interval_seconds |-> NoPollIntervals, testnet_enabled |-> FALSE,
       observe_feed |-> FALSE]
      : p \in {0, 100} }

\* The accepted quotes the stores hold.
ScanQuote(sym, b, a) ==
    validate_and_enhance_price_data(Ticker(sym, b, a, Num(1), Num(1)), "E1", sym)

\* What one deque of a scanned store holds: nothing (never touched, "absent",
\* or touched by a lookup, "empty"), or one or two recorded entries.
ScanDeques(sym) ==
    {<<>>}
    \cup {<< <<ts, ScanQuote(sym, pr[1], pr[2])>> >> :
            ts \in {0, 1},
            pr \in {<<Num(1), Num(2)>>, <<Num(2), Num(2)>>, <<Num(4), Num(4)>>}}
    \cup {<< <<1, ScanQuote(sym, NaNVal, Num(1))>> >>,
          << <<0, ScanQuote(sym, Num(4), Num(4))>>, <<0, ScanQuote(sym, Num(1), Num(2))>> >>,
          << <<0, ScanQuote(sym, Num(1), Num(2))>>, <<1, ScanQuote(sym, Num(2), Num(2))>> >>}

\* The store after the entries of dq were recorded for (e, sym), in order.
RECURSIVE RecordAll(_, _, _, _)
RecordAll(ds, e, sym, dq) ==
    IF dq = <<>> THEN ds
    ELSE RecordAll(StoreAppend(ds, e, sym, Head(dq)[1], Head(dq)[2]), e, sym, Tail(dq))

ScanChoices(sym) ==
    {[present |-> FALSE, dq |-> <<>>]}
    \cup {[present |-> TRUE, dq |-> d] : d \in ScanDeques(sym)}

\* The store holding, for the first i symbols, what the choice c says.
RECURSIVE BuildStore(_, _)
BuildStore(c, i) ==
    IF i = 0 THEN EmptyStore
    ELSE LET d == BuildStore(c, i - 1)
         IN  IF c[i].present
             THEN RecordAll(Touch(d, "E1", SymbolList[i]), "E1", SymbolList[i], c[i].dq)
             ELSE d

ScanStores ==
    {BuildStore(c, 3) : c \in ScanChoices(SymbolList[1]) \X ScanChoices(SymbolList[2])
                              \X ScanChoices(SymbolList[3])}

InitScan ==
    /\ data_store \in ScanStores
    /\ now \in 1..MaxScanTime
    /\ config \in ScanConfigs
    /\ sup = [e \in Exchanges |-> Supervisor(e, "polling", 0)]
    /\ opportunities = NoCycle
    /\ lookup = NoLookup
    /\ raw_in = RawNone
    /\ validated = Pending
    /\ orch = Joining

NextLookup ==
    \E e \in {"E1"}, s \in Symbols, max_age_seconds \in {1}, min_volume_usd \in {1, 5} :
        GetTradeablePrice(e, s, max_age_seconds, min_volume_usd)

SpecLookup == InitScan /\ [][NextLookup]_vars

NextDetect == DetectCycle

SpecDetect == InitScan /\ [][NextDetect]_vars

-----------------------------------------------------------------------------
(* The spatial scan over stores that ingestion on two exchanges can leave  *)
(* behind for one symbol, in either order of first contact.                *)

SpatialConfigs ==
    { [exchanges |-> [e \in Exchanges |-> <<BTC_USDT>>],
       min_profit_percentage |-> p, max_age_seconds |-> 1,
       min_volume_usd_triangular |-> 5, min_volume_usd_spatial |-> 5,
       poll_interval_seconds |-> NoPollIntervals, testnet_enabled |-> FALSE,
       observe_feed |-> FALSE]
      : p \in {0, 100} }

\* What the deque of one exchange holds: nothing, or one accepted quote
\* recorded at time 0 or 1 (a NaN bid is accepted by the validation).
SpatialDeques ==
    {<<>>}
    \cup {<< <<ts, ScanQuote(BTC_USDT, pr[1], pr[2])>> >> :
            ts \in {0, 1},
            pr \in {<<Num(1), Num(1)>>, <<Num(1), Num(2)>>, <<Num(2), Num(2)>>,
                    <<Num(4), Num(4)>>, <<NaNVal, Num(1)>>}}

\* The keys of data_store are in the order the exchanges were first recorded.
SpatialOrders == {<<"E1", "E2">>, <<"E2", "E1">>}

SpatialStores ==
    {RecordAll(RecordAll(Touch(Touch(EmptyStore, o[1], BTC_USDT), o[2], BTC_USDT),
                         "E1", BTC_USDT, d1),
               "E2", BTC_USDT, d2)
        : o \in SpatialOrders, d1 \in SpatialDeques, d2 \in SpatialDeques}

InitSpatial ==
    /\ data_store \in SpatialStores
    /\ now \in 1..MaxScanTime
    /\ config \in SpatialConfigs
    /\ sup = [e \in Exchanges |-> Supervisor(e, "polling", 0)]
    /\ opportunities = NoCycle
    /\ lookup = NoLookup
    /\ raw_in = RawNone
    /\ validated = Pending
    /\ orch = Joining

NextSpatial == DetectCycle

SpecSpatial == InitSpatial /\ [][NextSpatial]_vars

-----------------------------------------------------------------------------
(* The supervisors, the join of main() and the detector over one symbol    *)
(* per exchange.                                                           *)

MaxSupEntries == 1      \* entries held by the whole store in this model

SupConfigs ==
    { [exchanges |-> [e \in Exchanges |-> <<BTC_USDT>>],
       min_profit_percentage |-> 0, max_age_seconds |-> 1,
       min_volume_usd_triangular |-> 5, min_volume_usd_spatial |-> 5,
       poll_interval_seconds |->
           [e \in Exchanges |-> IF e = "E1" THEN NoInterval ELSE interval],
       testnet_enabled |-> TRUE, observe_feed |-> FALSE]
      : interval \in {Interval(3), TextInterval} }

InitSup ==
    /\ data_store = EmptyStore
    /\ now = 0
    /\ config \in SupConfigs
    /\ sup = [e \in Exchanges |-> Supervisor(e, "connecting", 0)]
    /\ opportunities = NoCycle
    /\ lookup = NoLookup
    /\ raw_in = RawNone
    /\ validated = Pending
    /\ orch = Joining

NextSup ==
    \/ \E e \in Exchanges : \E has \in Capabilities : ConnectOk(e, has)
    \/ \E e \in Exchanges : \E stage \in AenterRaises, close_raises \in BOOLEAN :
            ConnectFail(e, stage, close_raises)
    \/ \E e \in Exchanges : Retry(e)
    \/ \E e \in Exchanges : StreamRound(e) /\ TotalEntries(data_store') <= MaxSupEntries
    \/ \E e \in Exchanges : StreamFail(e)
    \/ \E e \in Exchanges :
          PollFetch(e) /\ TotalEntries(data_store') <= MaxSupEntries
                       /\ sup'[e].poll_errors <= MaxPollErrors
    \/ DetectCycle

SpecSup == InitSup /\ [][NextSup]_vars

-----------------------------------------------------------------------------
(* The wrapper on its own: a wrapper is entered and then left repeatedly.  *)

MaxExits == 3       \* calls of __aexit__ on one wrapper

\* `await wrapper.__aenter__()` on a wrapper that holds no exchange yet.
WrapperEnter(e, outcome) ==
    /\ ~sup[e].wrapper.exchange
    /\ sup[e].exits = 0
    /\ (outcome = "sandbox") => config.testnet_enabled
    /\ LET w == aenter(sup[e].wrapper, outcome)
       IN  sup' = [sup EXCEPT ![e].wrapper = w,
                              ![e].open = @ + (IF w.exchange THEN 1 ELSE 0)]
    /\ UNCHANGED <<data_store, now, config, opportunities, lookup, raw_in, validated, orch>>

\* `await wrapper.__aexit__(None, None, None)` under the try of the finally
\* block of monitor_exchange.
WrapperExit(e, close_raises) ==
    /\ sup' = [sup EXCEPT ![e] = monitor_exchange_finally(@, close_raises)]
    /\ UNCHANGED <<data_store, now, config, opportunities, lookup, raw_in, validated, orch>>

InitWrapper ==
    /\ data_store = EmptyStore
    /\ now = 0
    /\ config \in SupConfigs
    /\ sup = [e \in Exchanges |->
                [Supervisor(e, "connecting", 0) EXCEPT !.wrapper = NewWrapper]]
    /\ opportunities = NoCycle
    /\ lookup = NoLookup
    /\ raw_in = RawNone
    /\ validated = Pending
    /\ orch = Joining

\* `await wrapper.__aenter__()` on a wrapper that was entered or exited
\* before: a new exchange object takes the place of the one held.
WrapperReenter(e, outcome) ==
    /\ sup[e].wrapper.exchange \/ sup[e].exits > 0
    /\ (outcome = "sandbox") => config.testnet_enabled
    /\ LET w == aenter(sup[e].wrapper, outcome)
       IN  sup' = [sup EXCEPT ![e].wrapper = w,
                              ![e].open = @ + (IF outcome # "create" THEN 1 ELSE 0)]
    /\ UNCHANGED <<data_store, now, config, opportunities, lookup, raw_in, validated, orch>>

NextWrapper ==
    \/ \E e \in Exchanges : \E outcome \in AenterOutcomes : WrapperEnter(e, outcome)
    \/ \E e \in Exchanges : \E close_raises \in BOOLEAN :
            WrapperExit(e, close_raises) /\ sup'[e].exits <= MaxExits

SpecWrapper == InitWrapper /\ [][NextWrapper]_vars

\* The same wrappers used again after an exit.
MaxOpen == 2        \* exchange objects of one exchange id not yet closed

NextReenter ==
    \/ \E outcome \in AenterOutcomes : WrapperEnter("E1", outcome)
    \/ \E outcome \in AenterOutcomes :
            WrapperReenter("E1", outcome) /\ sup'["E1"].open <= MaxOpen
    \/ \E close_raises \in BOOLEAN :
            WrapperExit("E1", close_raises) /\ sup'["E1"].exits <= MaxExits

SpecReenter == InitWrapper /\ [][NextReenter]_vars

-----------------------------------------------------------------------------
(* Ingestion: exchange E1 streams or polls two symbols into an empty store *)
(* while the detector and the lookups read it.                             *)

MaxIngestEntries == 2   \* entries held by the whole store in this model

IngestConfig ==
    [exchanges |-> [e \in Exchanges |->
                      IF e = "E1" THEN <<BTC_USDT, ETH_BTC>> ELSE <<BTC_USDT>>],
     min_profit_percentage |-> 0, max_age_seconds |-> 1,
     min_volume_usd_triangular |-> 5, min_volume_usd_spatial |-> 5,
     poll_interval_seconds |-> NoPollIntervals, testnet_enabled |-> FALSE,
     observe_feed |-> TRUE]

InitIngest ==
    /\ data_store = EmptyStore
    /\ now = 0
    /\ config = IngestConfig
    /\ \E mode \in {"streaming", "polling"} :
          sup = [e \in Exchanges |->
                   IF e = "E1" THEN Supervisor(e, mode, 0)
                   ELSE Supervisor(e, "failed", max_retries - 1)]
    /\ opportunities = NoCycle
    /\ lookup = NoLookup
    /\ raw_in = RawNone
    /\ validated = Pending
    /\ orch = Joining

NextIngest ==
    \/ StreamRound("E1") /\ TotalEntries(data_store') <= MaxIngestEntries
    \/ StreamFail("E1")
    \/ PollFetch("E1") /\ TotalEntries(data_store') <= MaxIngestEntries
    \/ Tick /\ now' <= MaxTime

SpecIngest == InitIngest /\ [][NextIngest]_vars

-----------------------------------------------------------------------------
(* Readers and writers: the detector and the lookups read the store while  *)
(* exchange E1 records into it.                                            *)

MaxConcEntries == 2     \* entries held by the whole store in this model

ConcConfig == [IngestConfig EXCEPT !.observe_feed = FALSE]

InitConc ==
    /\ data_store = EmptyStore
    /\ now = 0
    /\ config = ConcConfig
    /\ \E mode \in {"streaming", "polling"} :
          sup = [e \in Exchanges |->
                   IF e = "E1" THEN Supervisor(e, mode, 0)
                   ELSE Supervisor(e, "failed", max_retries - 1)]
    /\ opportunities = NoCycle
    /\ lookup = NoLookup
    /\ raw_in = RawNone
    /\ validated = Pending
    /\ orch = Joining

NextConc ==
    \/ StreamRound("E1") /\ TotalEntries(data_store') <= MaxConcEntries
    \/ PollFetch("E1") /\ TotalEntries(data_store') <= MaxConcEntries
    \/ DetectCycle
    \/ \E s \in {BTC_USDT, ETH_BTC} : GetTradeablePrice("E1", s, 1, 5)
    \/ Tick /\ now' <= MaxTime

SpecConc == InitConc /\ [][NextConc]_vars

-----------------------------------------------------------------------------
(* The retry loop for every max_retries: the attempts of E1 all fail or    *)
(* one of them connects.                                                   *)

MaxRetriesParam == 7    \* max_retries of E1 ranges over 1..MaxRetriesParam

InitRetry ==
    /\ data_store = EmptyStore
    /\ now = 0
    /\ config \in SupConfigs
    /\ \E n \in 1..MaxRetriesParam :
          sup = [e \in Exchanges |->
                   IF e = "E1"
                   THEN [Supervisor(e, "connecting", 0) EXCEPT !.max_retries = n]
                   ELSE Supervisor(e, "connecting", 0)]
    /\ opportunities = NoCycle
    /\ lookup = NoLookup
    /\ raw_in = RawNone
    /\ validated = Pending
    /\ orch = Joining

NextRetry ==
    \/ \E has \in Capabilities : ConnectOk("E1", has)
    \/ \E stage \in AenterRaises, close_raises \in BOOLEAN :
            ConnectFail("E1", stage, close_raises)
    \/ Retry("E1")

SpecRetry == InitRetry /\ [][NextRetry]_vars

-----------------------------------------------------------------------------
(* Start-up: main() over configurations with no, one or two exchanges.     *)

MainSymbolLists ==
    {<<>>, <<BTC_USDT>>, <<ETH_BTC>>, <<BTC_USDT, ETH_BTC>>, <<ETH_BTC, BTC_USDT>>}

MainConfigs ==
    { [exchanges |-> ex,
       min_profit_percentage |-> 0, max_age_seconds |-> 1,
       min_volume_usd_triangular |-> 5, min_volume_usd_spatial |-> 5,
       poll_interval_seconds |-> NoPollIntervals, testnet_enabled |-> tn,
       observe_feed |-> FALSE]
      : ex \in UNION {[S -> MainSymbolLists] : S \in SUBSET Exchanges},
        tn \in BOOLEAN }

InitMain ==
    /\ data_store = EmptyStore
    /\ now = 0
    /\ config \in MainConfigs
    /\ sup = [e \in {} |-> NoResults]
    /\ opportunities = NoCycle
    /\ lookup = NoLookup
    /\ raw_in = RawNone
    /\ validated = Pending
    /\ orch = NotStarted

NextMain == Main

SpecMain == InitMain /\ [][NextMain]_vars

-----------------------------------------------------------------------------
(* Scheduling: the detector and the polling supervisor of E2 run beside    *)
(* the supervisor of E1, whose symbol list may be empty.  The event loop    *)
(* runs every task that is ready, which is the fairness stated here.       *)

MaxLiveEntries == 1     \* entries held by the whole store in this model

LiveConfigs ==
    { [exchanges |-> [e \in Exchanges |->
                        IF e = "E1" THEN symbols ELSE <<BTC_USDT, ETH_BTC>>],
       min_profit_percentage |-> 0, max_age_seconds |-> 1,
       min_volume_usd_triangular |-> 5, min_volume_usd_spatial |-> 5,
       poll_interval_seconds |-> NoPollIntervals, testnet_enabled |-> FALSE,
       observe_feed |-> FALSE]
      : symbols \in {<<>>, <<BTC_USDT>>} }

InitLive ==
    /\ data_store = EmptyStore
    /\ now = 0
    /\ config \in LiveConfigs
    /\ sup = [e \in Exchanges |->
                IF e = "E1" THEN Supervisor(e, "connecting", 0)
                ELSE Supervisor(e, "polling", 0)]
    /\ opportunities = NoCycle
    /\ lookup = NoLookup
    /\ raw_in = RawNone
    /\ validated = Pending
    /\ orch = Joining

LivePoll(e) == PollFetch(e) /\ TotalEntries(data_store') <= MaxLiveEntries

NextLive ==
    \/ \E has \in Capabilities : ConnectOk("E1", has)
    \/ ConnectFail("E1", "load_markets", FALSE)
    \/ Retry("E1")
    \/ StreamRound("E1") /\ TotalEntries(data_store') <= MaxLiveEntries
    \/ StreamFail("E1")
    \/ \E e \in Exchanges : LivePoll(e)
    \/ DetectCycle

SpecLive ==
    /\ InitLive /\ [][NextLive]_vars
    /\ WF_vars(DetectCycle)
    /\ WF_vars(LivePoll("E2"))

-----------------------------------------------------------------------------
(* Two writers: E1 streams or polls and E2 polls, beside the detector and  *)
(* the lookups.                                                            *)

MaxFrameEntries == 2    \* entries held by the whole store in this model

FrameConfig ==
    [IngestConfig EXCEPT !.observe_feed = FALSE,
                         !.exchanges = [e \in Exchanges |-> <<BTC_USDT>>]]

InitFrame ==
    /\ data_store = EmptyStore
    /\ now = 0
    /\ config = FrameConfig
    /\ \E mode \in {"streaming", "polling"} :
          sup = [e \in Exchanges |->
                   IF e = "E1" THEN Supervisor(e, mode, 0)
                   ELSE Supervisor(e, "polling", 0)]
    /\ opportunities = NoCycle
    /\ lookup = NoLookup
    /\ raw_in = RawNone
    /\ validated = Pending
    /\ orch = Joining

NextFrame ==
    \/ StreamRound("E1") /\ TotalEntries(data_store') <= MaxFrameEntries
    \/ StreamFail("E1")
    \/ \E e \in Exchanges : PollFetch(e) /\ TotalEntries(data_store') <= MaxFrameEntries
    \/ DetectCycle
    \/ \E e \in Exchanges : GetTradeablePrice(e, BTC_USDT, 1, 5)
    \/ Tick /\ now' <= MaxTime

SpecFrame == InitFrame /\ [][NextFrame]_vars

-----------------------------------------------------------------------------
(* One streaming round in its steps: the gather is started, its            *)
(* subscriptions complete one by one while the clock runs, and the gather  *)
(* returns.                                                                *)

MaxGatherEntries == 2   \* entries held by the whole store in this model

InitGather ==
    /\ data_store = EmptyStore
    /\ now = 0
    /\ config = [IngestConfig EXCEPT !.observe_feed = FALSE]
    /\ sup = [e \in Exchanges |->
                IF e = "E1" THEN Supervisor(e, "streaming", 0)
                ELSE Supervisor(e, "failed", max_retries - 1)]
    /\ opportunities = NoCycle
    /\ lookup = NoLookup
    /\ raw_in = RawNone
    /\ validated = Pending
    /\ orch = Joining

NextGather ==
    \/ GatherStart("E1")
    \/ \E i \in 1..(2 * Len(sup["E1"].symbols)) :
          \E result \in FeedTickers(BTC_USDT) \cup FeedTickers(ETH_BTC) :
             SubscriptionDone("E1", i, result)
    \/ GatherReturn("E1") /\ TotalEntries(data_store') <= MaxGatherEntries
    \/ Tick /\ now' <= MaxTime

SpecGather == InitGather /\ [][NextGather]_vars

-----------------------------------------------------------------------------
(* Validation of a parsed configuration (config_loader.validate_config and *)
(* Config.load with Config._validate).  Values are tagged as the raw quote *)
(* fields are; True and False are the integers 1 and 0 of type bool.       *)

Bool(b) == [tag |-> "bool", v |-> IF b THEN 1 ELSE 0]

\* isinstance(value, (int, float)): bool is a subclass of int.
IsIntOrFloat(val) == val.tag \in {"int", "nan", "bool"}

\* value <= 0 for an int, a bool or a float.
LeZero(val) == val.tag # "nan" /\ val.v <= 0

\* One value of config['exchanges']: a dict with or without 'symbols', or None.
ExchangeDict(symbols) == [kind |-> "dict", symbols |-> symbols]
ExchangeNone == [kind |-> "none", symbols |-> "absent"]

\* The loop over config['exchanges'].items(), in the dict's order: "ok", or
\* how the first offending entry ends it.  `'symbols' not in None` raises
\* TypeError.
RECURSIVE check_exchanges(_)
check_exchanges(entries) ==
    IF entries = <<>> THEN "ok"
    ELSE IF Head(entries).kind = "none" THEN "TypeError"
    ELSE IF Head(entries).symbols = "absent" THEN "SystemExit"
    ELSE IF Head(entries).symbols # "list" THEN "SystemExit"
    ELSE check_exchanges(Tail(entries))

\* The checks of min_volume_usd[key] for key in ['triangular', 'spatial'].
check_volume_key(val) ==
    IF val.tag = "absent" THEN "SystemExit"
    ELSE IF ~IsIntOrFloat(val) \/ LeZero(val) THEN "SystemExit"
    ELSE "ok"

\* validate_config(config): "True" when it returns, "SystemExit" for
\* sys.exit(1), "TypeError" for the exception that leaves it.
validate_config(c) ==
    IF \E key \in {"exchanges", "min_profit_percentage", "testnet",
                   "max_age_seconds", "min_volume_usd"} : c[key].tag = "absent"
    THEN "SystemExit"
    ELSE IF c.exchanges.tag # "dict" THEN "SystemExit"
    ELSE IF check_exchanges(c.exchanges.entries) # "ok"
    THEN check_exchanges(c.exchanges.entries)
    ELSE IF ~IsIntOrFloat(c.min_profit_percentage) THEN "SystemExit"
    ELSE IF c.testnet.tag # "bool" THEN "SystemExit"
    ELSE IF ~IsIntOrFloat(c.max_age_seconds) \/ LeZero(c.max_age_seconds)
    THEN "SystemExit"
    ELSE IF c.min_volume_usd.tag # "dict" THEN "SystemExit"
    ELSE IF check_volume_key(c.min_volume_usd.triangular) # "ok" THEN "SystemExit"
    ELSE IF check_volume_key(c.min_volume_usd.spatial) # "ok" THEN "SystemExit"
    ELSE "True"

\* Config.load(): _validate makes the same checks as validate_config; an
\* Exception raised inside the try block is caught and ends in sys.exit(1),
\* while SystemExit passes through.  load returns None.
Config_load(c) ==
    IF validate_config(c) = "True" THEN "None" ELSE "SystemExit"

MaxConfigEntries == 2   \* exchanges listed in a parsed configuration

ConfigNumbers == {Absent, BadStr, NaNVal, Bool(TRUE), Num(-1), Num(0), Num(1)}
ConfigVolumes == {Absent, BadStr, NaNVal, Num(0), Num(1)}
ConfigEntries ==
    {ExchangeDict("absent"), ExchangeDict("list"), ExchangeDict("str"), ExchangeNone}
ConfigExchanges ==
    {[tag |-> "absent", entries |-> <<>>], [tag |-> "list", entries |-> <<>>]}
    \cup {[tag |-> "dict", entries |-> es] :
            es \in UNION {[1..n -> ConfigEntries] : n \in 0..MaxConfigEntries}}
ConfigVolumeDicts ==
    {[tag |-> "absent", triangular |-> Absent, spatial |-> Absent],
     [tag |-> "list", triangular |-> Absent, spatial |-> Absent]}
    \cup {[tag |-> "dict", triangular |-> a, spatial |-> b] :
            a \in ConfigVolumes, b \in ConfigVolumes}

ParsedConfigs ==
    [exchanges : ConfigExchanges,
     min_profit_percentage : {Absent, BadStr, Bool(TRUE), Num(0)},
     testnet : {Absent, Bool(FALSE), Num(1)},
     max_age_seconds : ConfigNumbers,
     min_volume_usd : ConfigVolumeDicts]

InitConfig ==
    /\ data_store = EmptyStore
    /\ now = 0
    /\ config \in ParsedConfigs
    /\ sup = [e \in {} |-> NoResults]
    /\ opportunities = NoCycle
    /\ lookup = NoLookup
    /\ raw_in = RawNone
    /\ validated = Pending
    /\ orch = NotStarted

\* validate_config(config) is called on the parsed configuration.
ValidateConfig ==
    /\ validated = Pending
    /\ validated' = [by |-> "validate_config", outcome |-> validate_config(config)]
    /\ UNCHANGED <<data_store, now, config, sup, opportunities, lookup, raw_in, orch>>

\* config_loader.config.load() is called on the parsed configuration.
LoadConfig ==
    /\ validated = Pending
    /\ validated' = [by |-> "Config.load", outcome |-> Config_load(config)]
    /\ UNCHANGED <<data_store, now, config, sup, opportunities, lookup, raw_in, orch>>

NextConfig == ValidateConfig \/ LoadConfig

SpecConfig == InitConfig /\ [][NextConfig]_vars

-----------------------------------------------------------------------------
(* Properties.                                                             *)

Positive(x) == ~x.nan /\ x.num > 0 /\ x.den > 0
QuoteFields == {"bid", "ask", "bid_volume", "ask_volume"}

\* C1: every entry of every buffer is a fully-populated validated quote:
\* bid > 0, ask > 0, ask >= bid, bid_volume > 0 and ask_volume > 0.
\* The code stores a quote whose bid is NaN, so TLC finds this violated.
C1_StoreHoldsValidQuotes ==
    \A e \in Exchanges, s \in Symbols :
        \A i \in DOMAIN Deque(data_store, e, s) :
            LET q == Deque(data_store, e, s)[i][2]
            IN  /\ QuoteFields \subseteq DOMAIN q
                /\ \A f \in QuoteFields : Positive(q[f])
                /\ q.ask.num * q.bid.den >= q.bid.num * q.ask.den

\* C2: no (exchange, symbol) buffer ever holds more than 100 entries.
C2_NeverMoreThan100 ==
    \A e \in Exchanges, s \in Symbols : Len(Deque(data_store, e, s)) <= 100

\* A full buffer into which every allowed further record has been made.
C2_Witness ==
    /\ Len(Deque(data_store, "E1", BTC_USDT)) = 100
    /\ NewEntries(data_store) = MaxRingAppends

\* C3: a record into a buffer of 100 entries removes exactly the oldest entry
\* and puts the new one last, the other 99 keeping their order; a record into
\* a shorter buffer removes nothing.
C3_FifoEviction ==
    [][\A e \in Exchanges, s \in Symbols :
          LET old == Deque(data_store, e, s)
              new == Deque(data_store', e, s)
          IN  (new # old) =>
                /\ new[Len(new)][1] = now
                /\ IF Len(old) = 100
                   THEN /\ Len(new) = 100
                        /\ \A i \in 1..99 : new[i] = old[i + 1]
                   ELSE /\ Len(new) = Len(old) + 1
                        /\ \A i \in 1..Len(old) : new[i] = old[i]]_vars

\* Two records were made into the full buffer: its two oldest entries are
\* gone and a new entry is last.
C3_Witness ==
    LET dq == Deque(data_store, "E1", BTC_USDT)
    IN  /\ Len(dq) = 100
        /\ dq[1] = <<0, PrefillQuote(3)>>
        /\ dq[100][1] > 0

VolumeThresholds == {0, 1, 5, 1000}

C6_RejectsIncomplete ==
    (/\ validated # Pending
     /\ \/ raw_in.kind = "none"
        \/ raw_in = EmptyDict
        \/ \E f \in {"bid", "ask", "bidVolume", "askVolume"} :
               raw_in[f].tag \in {"absent", "none"})
    => validated = None

\* A quote complete but for a null askVolume was rejected.
C6_Witness ==
    /\ validated = None
    /\ raw_in = Ticker(BTC_USDT, Num(1), Num(2), Num(1), Null)

IsNumber(val) == val.tag \in {"int", "numstr"}

\* C7: validate rejects every raw quote with ask < bid, and an accepted quote
\* carries the raw bid and the raw ask, neither swapped nor clamped.
C7_CrossedRejectedNeverSwapped ==
    validated # Pending =>
        /\ (IsNumber(raw_in.bid) /\ IsNumber(raw_in.ask) /\ raw_in.ask.v < raw_in.bid.v)
              => (validated = None)
        /\ (validated # None) =>
              (/\ validated.bid = ToFloat(raw_in.bid)
               /\ validated.ask = ToFloat(raw_in.ask))

\* A quote with ask < bid and nothing else wrong was rejected.
C7_Witness ==
    /\ validated = None
    /\ raw_in = Ticker(BTC_USDT, Num(2), Num(1), Num(1), Num(1))

\* C8: a detection cycle leaves the price store unchanged: the same keys and
\* the same buffers afterwards.  The scans read the store through the
\* defaultdicts, which creates keys, so TLC finds this violated.
C8_CycleLeavesStoreUnchanged == [][DetectCycle => data_store' = data_store]_vars

\* The newest entry of a buffer, and whether it makes the key tradeable.
Newest(e, s) == Deque(data_store, e, s)[Len(Deque(data_store, e, s))]
Fresh(e, s) ==
    /\ Len(Deque(data_store, e, s)) > 0
    /\ now - Newest(e, s)[1] <= config.max_age_seconds

TriangularReported(e) ==
    {opportunities[i] : i \in {j \in DOMAIN opportunities :
        opportunities[j].type = "triangular" /\ opportunities[j].exchange = e}}

C10_IncompleteTriangleSkipped ==
    \A e \in Exchanges :
        (/\ opportunities # NoCycle
         /\ \E s \in {BTC_USDT, ETH_BTC, ETH_USDT} : ~Fresh(e, s))
        => TriangularReported(e) = {}

\* A cycle ran over a triangle that would pay but whose third quote is stale.
C10_Witness ==
    /\ opportunities # NoCycle
    /\ Fresh("E1", BTC_USDT) /\ Fresh("E1", ETH_BTC)
    /\ Len(Deque(data_store, "E1", ETH_USDT)) > 0
    /\ ~Fresh("E1", ETH_USDT)
    /\ Newest("E1", ETH_BTC)[2].ask = Flt(4)
    /\ Newest("E1", ETH_USDT)[2].bid = Flt(4)
    /\ TriangularReported("E1") = {}

\* The spatial opportunities a cycle reported for buying on x and selling on y.
SpatialReported(s, x, y) ==
    {opportunities[i] : i \in {j \in DOMAIN opportunities :
        /\ opportunities[j].type = "spatial" /\ opportunities[j].symbol = s
        /\ opportunities[j].buy_exchange = x /\ opportunities[j].sell_exchange = y}}

\* (sell_price - buy_price) / buy_price * 100
PercentGain(buy_price, sell_price) ==
    FMul(FDiv(FSub(sell_price, buy_price), buy_price), Flt(100))

\* C11: every spatial opportunity reported with buy exchange X and sell
\* exchange Y has (bid(Y) - ask(X)) / ask(X) * 100 > min_profit_percentage on
\* the quotes of that cycle, in the forward and in the reverse direction.
\* The reverse direction is tested on (ask(X') - bid(Y')) / bid(Y') of the
\* forward pair, so TLC finds this violated.
C11_SpatialReportedProfitable ==
    opportunities # NoCycle =>
        \A x \in Exchanges, y \in Exchanges :
            SpatialReported(BTC_USDT, x, y) # {} =>
                FGt(PercentGain(Newest(x, BTC_USDT)[2].ask, Newest(y, BTC_USDT)[2].bid),
                    Flt(config.min_profit_percentage))

\* C12: a reported spatial opportunity carries buy_price = ask of its buy
\* exchange, sell_price = bid of its sell exchange, and profit_percentage =
\* (sell_price - buy_price) / buy_price * 100 of those two reported prices.
\* The reverse direction reports the profit of the other two prices, so TLC
\* finds this violated.
C12_SpatialReportConsistent ==
    opportunities # NoCycle =>
        \A x \in Exchanges, y \in Exchanges :
            \A o \in SpatialReported(BTC_USDT, x, y) :
                /\ o.buy_price = Newest(x, BTC_USDT)[2].ask
                /\ o.sell_price = Newest(y, BTC_USDT)[2].bid
                /\ o.profit_percentage = PercentGain(o.buy_price, o.sell_price)

\* C13: for every ordered pair of distinct exchanges (X, Y) with tradeable
\* quotes, (bid(Y) - ask(X)) / ask(X) * 100 > min_profit_percentage implies
\* that the cycle reported buy X / sell Y, whichever of the two is first in
\* the exchange list.  With X second in the list and bid(X) NaN the reverse
\* test is false, so TLC finds this violated.
C13_SpatialProfitableReported ==
    opportunities # NoCycle =>
        \A x \in Exchanges, y \in Exchanges :
            (/\ x # y
             /\ Fresh(x, BTC_USDT) /\ Fresh(y, BTC_USDT)
             /\ FGt(PercentGain(Newest(x, BTC_USDT)[2].ask, Newest(y, BTC_USDT)[2].bid),
                    Flt(config.min_profit_percentage)))
            => SpatialReported(BTC_USDT, x, y) # {}

\* The same for quotes whose bid and ask are numbers.
SpatialProfitableReportedNumeric ==
    opportunities # NoCycle =>
        \A x \in Exchanges, y \in Exchanges :
            (/\ x # y
             /\ Fresh(x, BTC_USDT) /\ Fresh(y, BTC_USDT)
             /\ ~Newest(x, BTC_USDT)[2].bid.nan /\ ~Newest(y, BTC_USDT)[2].bid.nan
             /\ FGt(PercentGain(Newest(x, BTC_USDT)[2].ask, Newest(y, BTC_USDT)[2].bid),
                    Flt(config.min_profit_percentage)))
            => SpatialReported(BTC_USDT, x, y) # {}

\* The backoff sleeps of a supervisor whose attempts all fail.
ExpectedWaits == <<10, 20, 40, 80>>

\* C14: a supervisor whose attempts all fail calls monitor_exchange exactly
\* max_retries = 5 times: it sleeps 10, 20, 40 and 80 seconds after the 1st
\* to 4th failure, does not sleep after the 5th, makes no 6th call, and its
\* task has then returned.
C14_FiveAttemptsThenGiveUp ==
    \A e \in Exchanges :
        LET s == sup[e]
        IN  /\ s.calls \in 1..5
            /\ s.waits = SubSeq(ExpectedWaits, 1, Len(s.waits))
            /\ (s.pc = "backoff") => (Len(s.waits) = s.calls)
            /\ (s.pc \in {"connecting", "streaming", "polling"})
                    => (Len(s.waits) = s.calls - 1)
            /\ (s.pc = "failed")
                    => (s.calls = 5 /\ s.waits = ExpectedWaits /\ s.task # "running")

\* A supervisor gave up after its fifth failure.
C14_Witness ==
    \E e \in Exchanges :
        sup[e].pc = "failed" /\ sup[e].calls = 5 /\ Len(sup[e].waits) = 4

\* C15: when a supervisor has given up, its task has returned without
\* raising, the join of main() has not ended, the detector and the other
\* supervisors are running and none of them was cancelled; a polling
\* supervisor can still fetch and the detector can still run a cycle.
C15_PermanentFailureContained ==
    \A e \in Exchanges :
        (sup[e].pc = "failed") =>
            /\ sup[e].task = "returned"
            /\ orch.join = "joining"
            /\ orch.detector = "running"
            /\ ENABLED DetectCycle
            /\ \A f \in Exchanges \ {e} :
                  /\ sup[f].task # "cancelled"
                  /\ (sup[f].pc # "failed") => (sup[f].task = "running")
                  /\ (sup[f].pc = "polling") => ENABLED PollFetch(f)

\* E1 gave up while E2 polls and the detector has run.
C15_Witness ==
    /\ sup["E1"].pc = "failed"
    /\ sup["E2"].pc = "polling"
    /\ sup["E2"].task = "running"
    /\ Len(Deque(data_store, "E2", BTC_USDT)) = 1
    /\ opportunities # NoCycle

\* C16: after a successful connect the first mode of the attempt is STREAMING
\* iff the exchange has both watchTicker and watchOrderBook; without both the
\* attempt is in POLLING from the start and never in STREAMING.  A wrapper
\* that holds no exchange supports no streaming.
C16_StreamingIffBothCapabilities ==
    /\ \A has \in Capabilities : ~supports_websocket(NewWrapper, has)
    /\ \A e \in Exchanges :
          (sup[e].entered # <<>>) =>
              LET both == sup[e].has.watchTicker /\ sup[e].has.watchOrderBook
              IN  /\ (sup[e].entered[1] = "streaming") <=> both
                  /\ (~both) => (\A i \in DOMAIN sup[e].entered :
                                    sup[e].entered[i] = "polling")

\* E1 streams with both capabilities; E2 polls having only watchTicker.
C16_Witness ==
    /\ sup["E1"].entered = <<"streaming">>
    /\ sup["E2"].entered = <<"polling">>
    /\ sup["E2"].has.watchTicker /\ ~sup["E2"].has.watchOrderBook

\* C17: a step in which the streaming loop of a supervisor is ended by an
\* exception leaves the supervisor in POLLING, in the same attempt, for the
\* same symbols, with the poll interval configured for the exchange (1 when
\* none is configured).
C17_StreamFailureFallsBackToPolling ==
    [][\A e \in Exchanges :
          (sup'[e].stream_errors > sup[e].stream_errors) =>
              /\ sup[e].pc = "streaming"
              /\ sup'[e].pc = "polling"
              /\ sup'[e].task = "running"
              /\ sup'[e].calls = sup[e].calls
              /\ sup'[e].symbols = sup[e].symbols
              /\ sup'[e].poll_interval =
                    (IF config.poll_interval_seconds[e].present
                     THEN config.poll_interval_seconds[e].v ELSE 1)]_vars

\* E2, configured with a poll interval of 3, fell back from streaming.
C17_Witness ==
    /\ sup["E2"].stream_errors = 1
    /\ sup["E2"].pc = "polling"
    /\ sup["E2"].poll_interval = 3

\* C18: within one call of monitor_exchange the modes entered are STREAMING,
\* POLLING, or STREAMING then POLLING: at most one fallback, and no STREAMING
\* after POLLING.
C18_FallbackOnceOneWay ==
    \A e \in Exchanges :
        /\ sup[e].entered \in {<<>>, <<"streaming">>, <<"polling">>,
                               <<"streaming", "polling">>}
        /\ sup[e].stream_errors <= 1

\* A supervisor that fell back has polled a quote and a failed fetch since.
C18_Witness ==
    \E e \in Exchanges :
        /\ sup[e].entered = <<"streaming", "polling">>
        /\ sup[e].pc = "polling"
        /\ Len(Deque(data_store, e, BTC_USDT)) = 1

C20_CloseIdempotent ==
    \A e \in Exchanges :
        LET s == sup[e]
            w == s.wrapper
        IN  /\ s.close_calls = s.close_errors + (IF w.closed THEN 1 ELSE 0)
            /\ (~w.exchange) => (s.close_calls = 0 /\ ~w.closed)
            /\ (w.exchange /\ s.exits >= 1 /\ s.close_errors = 0)
                  => (w.closed /\ s.close_calls = 1)

\* __aexit__ ran three times on an open wrapper, and once on a wrapper that
\* never held an exchange.
C20_Witness ==
    /\ sup["E1"].wrapper.exchange /\ sup["E1"].exits = 3
    /\ sup["E1"].wrapper.closed /\ sup["E1"].close_calls = 1
    /\ ~sup["E2"].wrapper.exchange /\ sup["E2"].exits >= 1

\* C26: every key present in the store has a non-empty buffer, also after
\* lookups and detection cycles for keys that never received a quote.  The
\* reads go through the defaultdicts and leave empty buffers behind, so TLC
\* finds this violated.
C26_KeysHaveQuotes ==
    \A e \in Exchanges, s \in Symbols :
        HasKey(data_store, e, s) => Len(data_store.deques[e][s]) > 0

\* The records of one cycle for triangle number i on exchange e.
TriangleRecords(e, i) ==
    {j \in DOMAIN opportunities :
        /\ opportunities[j].type = "triangular"
        /\ opportunities[j].exchange = e
        /\ opportunities[j].path = triangles[i]}

\* C27: one cycle reports a triangle on an exchange at most once, and exactly
\* once when its three quotes are tradeable and its profit exceeds the
\* threshold.
C27_OneRecordPerTriangle ==
    \A e \in Exchanges :
        opportunities # NoCycle =>
            \A i \in DOMAIN triangles :
                LET tri == triangles[i]
                    a1 == Newest(e, tri[1])[2].ask
                    a2 == Newest(e, tri[2])[2].ask
                    b3 == Newest(e, tri[3])[2].bid
                    base == a1.num * a2.den * b3.den
                    gain == a1.den * a2.num * b3.num - base
                IN  /\ Cardinality(TriangleRecords(e, i)) <= 1
                    /\ (/\ Fresh(e, tri[1]) /\ Fresh(e, tri[2]) /\ Fresh(e, tri[3])
                        /\ ~a1.nan /\ ~a2.nan /\ ~b3.nan
                        /\ 100 * gain > config.min_profit_percentage * base)
                       => Cardinality(TriangleRecords(e, i)) = 1

\* A cycle reported the triangle on E1, once.
C27_Witness ==
    /\ opportunities # NoCycle
    /\ Fresh("E1", BTC_USDT) /\ Fresh("E1", ETH_BTC) /\ Fresh("E1", ETH_USDT)
    /\ Cardinality(TriangleRecords("E1", 1)) = 1

\* What a reader can get out of the store: a timestamp with a quote that
\* has all its fields.
EntryFields == {"bid", "ask", "bid_volume", "ask_volume", "spread_pct", "volume_score"}
CompleteEntry(entry) ==
    /\ Len(entry) = 2
    /\ entry[1] \in 0..now
    /\ DOMAIN entry[2] = EntryFields

\* C23: every entry of the store is complete in every state; a step changes a
\* buffer only by appending one complete entry (evicting the oldest of a
\* full buffer); and a lookup returns nothing or the quote of the newest
\* entry of the buffer as it was, with all its fields.
C23_ReadersSeeCompleteEntries ==
    /\ [](\A e \in Exchanges, s \in Symbols :
             \A i \in DOMAIN Deque(data_store, e, s) :
                 CompleteEntry(Deque(data_store, e, s)[i]))
    /\ [][/\ \A e \in Exchanges, s \in Symbols :
                LET old == Deque(data_store, e, s)
                    new == Deque(data_store', e, s)
                IN  new # old =>
                      /\ Len(new) > 0
                      /\ CompleteEntry(new[Len(new)])
                      /\ \/ new = Append(old, new[Len(new)])
                         \/ Len(old) = MAXLEN /\ new = Append(Tail(old), new[Len(new)])
          /\ lookup' # lookup =>
                LET old == Deque(data_store, lookup'.exchange_id, lookup'.symbol)
                IN  \/ lookup'.result = None
                    \/ /\ Len(old) > 0
                       /\ lookup'.result = old[Len(old)][2]
                       /\ DOMAIN lookup'.result = EntryFields]_vars

\* A lookup returned the quote of the first entry of a buffer, a different
\* quote was recorded after it, and a detection cycle ran.
C23_Witness ==
    /\ lookup.called /\ lookup.symbol = BTC_USDT
    /\ Len(Deque(data_store, "E1", BTC_USDT)) = 2
    /\ lookup.result = Deque(data_store, "E1", BTC_USDT)[1][2]
    /\ lookup.result # Deque(data_store, "E1", BTC_USDT)[2][2]
    /\ opportunities # NoCycle

\* The quotes received for symbol s, in the order of the log, as entries.
ReceivedFor(log, s) ==
    LET ForSymbol(x) == x[1] = s
        received == SelectSeq(log, ForSymbol)
    IN  [k \in DOMAIN received |-> <<received[k][2], received[k][3]>>]

\* C24: the buffer of a symbol holds the accepted updates of the exchange for
\* that symbol in the order in which they were received (the last MAXLEN of
\* them), in streaming and in polling mode.
C24_StoredInReceiveOrder ==
    \A e \in Exchanges, s \in Symbols :
        LET entries == ReceivedFor(sup[e].log, s)
        IN  Deque(data_store, e, s) =
                IF Len(entries) > MAXLEN
                THEN SubSeq(entries, Len(entries) - MAXLEN + 1, Len(entries))
                ELSE entries

\* Two different quotes with the same timestamp were recorded for one symbol
\* by a supervisor that streamed first and polled afterwards.
C24_Witness ==
    /\ sup["E1"].entered = <<"streaming", "polling">>
    /\ Len(Deque(data_store, "E1", BTC_USDT)) = 2
    /\ Deque(data_store, "E1", BTC_USDT)[1][1] = Deque(data_store, "E1", BTC_USDT)[2][1]
    /\ Deque(data_store, "E1", BTC_USDT)[1][2].bid.nan
    /\ ~Deque(data_store, "E1", BTC_USDT)[2][2].bid.nan

\* A result of a streaming round that reaches the validator for symbol s.
ValidatedFor(result, s) == result.kind = "dict" /\ result.symbol = s

\* C25: a polled ticker that the validator rejects leaves the store as it
\* was and the supervisor polling, with no error caught; in a streaming
\* round, a symbol all of whose results are rejected keeps its buffer, and a
\* round without a None result leaves the supervisor streaming.
C25_RejectedQuoteNoEffect ==
    [][\A e \in Exchanges :
        /\ sup[e].pc = "polling" =>
             \A ticker \in FeedTickers(sup[e].symbols[sup[e].idx]) :
                (/\ PollFetchOf(e, ticker)
                 /\ ticker.kind # "exception"
                 /\ validate_and_enhance_price_data(
                        ticker, e, sup[e].symbols[sup[e].idx]) = None)
                => /\ data_store' = data_store
                   /\ sup'[e].pc = "polling" /\ sup'[e].task = "running"
                   /\ sup'[e].calls = sup[e].calls
        /\ sup[e].pc = "streaming" =>
             \A results \in RoundResults(sup[e].symbols) :
                StreamRoundOf(e, results) =>
                  /\ \A s \in Symbols :
                        (/\ \E i \in DOMAIN results : ValidatedFor(results[i], s)
                         /\ \A i \in DOMAIN results :
                               ValidatedFor(results[i], s) =>
                                 validate_and_enhance_price_data(results[i], e, s) = None)
                        => Deque(data_store', e, s) = Deque(data_store, e, s)
                  /\ (\A i \in DOMAIN results : results[i].kind # "none")
                        => /\ sup'[e].pc = "streaming" /\ sup'[e].task = "running"
                           /\ sup'[e].calls = sup[e].calls]_vars

\* A crossed book was polled after a quote had been recorded: the supervisor
\* polls the next symbol and the store holds the one quote.
C25_Witness ==
    /\ sup["E1"].pc = "polling"
    /\ sup["E1"].last = << Ticker(ETH_BTC, Num(2), Num(1), Num(1), Num(1)) >>
    /\ Len(sup["E1"].log) = 1
    /\ TotalEntries(data_store) = 1

\* C30: a streaming round in which a subscription failed, and in which no
\* result is None, leaves the supervisor streaming with no error counted,
\* and every quote of the round that the validator accepts is the newest
\* entry of its buffer.
C30_FailedSubscriptionSkipped ==
    [][\A e \in Exchanges :
        sup[e].pc = "streaming" =>
          \A results \in RoundResults(sup[e].symbols) :
            (/\ StreamRoundOf(e, results)
             /\ \E i \in DOMAIN results : results[i].kind = "exception"
             /\ \A i \in DOMAIN results : results[i].kind # "none")
            => /\ sup'[e].pc = "streaming" /\ sup'[e].task = "running"
               /\ sup'[e].stream_errors = sup[e].stream_errors
               /\ \A i \in DOMAIN results :
                     LET s == results[i].symbol
                         enhanced_data == validate_and_enhance_price_data(results[i], e, s)
                         new == Deque(data_store', e, s)
                     IN  (/\ results[i].kind = "dict" /\ s # NoSymbol
                          /\ enhanced_data # None)
                         => /\ Len(new) > 0
                            /\ new[Len(new)] = <<now, enhanced_data>>]_vars

\* The ticker subscription of the first symbol failed in the last round, the
\* ticker of the second symbol was recorded, and the supervisor streams on.
C30_Witness ==
    /\ sup["E1"].pc = "streaming"
    /\ Len(sup["E1"].last) = 4
    /\ sup["E1"].last[1] = RawException
    /\ sup["E1"].last[3] = Ticker(ETH_BTC, Num(1), Num(2), Num(1), Num(1))
    /\ Len(Deque(data_store, "E1", ETH_BTC)) = 1
    /\ Deque(data_store, "E1", BTC_USDT) = <<>>
    /\ sup["E1"].stream_errors = 0

\* C28: for every max_retries, the wait after the (k+1)-th failure is
\* min(300, 10 * 2^k); the waits do not decrease and none exceeds 300; there
\* are at most max_retries - 1 of them and at most max_retries attempts; and
\* a supervisor has given up only after max_retries attempts.
C28_BackoffForEveryMaxRetries ==
    \A e \in Exchanges :
        LET s == sup[e]
        IN  /\ s.calls <= s.max_retries
            /\ Len(s.waits) <= s.max_retries - 1
            /\ \A k \in 0..(Len(s.waits) - 1) :
                  s.waits[k + 1] = (IF 10 * 2 ^ k < 300 THEN 10 * 2 ^ k ELSE 300)
            /\ \A k \in 1..(Len(s.waits) - 1) : s.waits[k] <= s.waits[k + 1]
            /\ \A k \in DOMAIN s.waits : s.waits[k] <= 300
            /\ (s.pc = "failed")
                  => (s.calls = s.max_retries /\ Len(s.waits) = s.max_retries - 1)

\* A supervisor with max_retries = 7 gave up after waits that reached the
\* cap.
C28_Witness ==
    /\ sup["E1"].max_retries = 7
    /\ sup["E1"].pc = "failed"
    /\ sup["E1"].waits = <<10, 20, 40, 80, 160, 300>>

\* C29: an error of the polling loop that is not the error of one symbol
\* (it reaches the outer handler) ends the attempt: the supervisor sleeps in
\* backoff or has given up.  The outer handler of poll_exchange_rest_api
\* keeps the loop going, so TLC finds this violated.
C29_AttemptFailureEscalates ==
    [][\A e \in Exchanges :
        (sup[e].pc = "polling" /\ sup'[e].poll_errors > sup[e].poll_errors)
        => sup'[e].pc \in {"backoff", "failed"}]_vars

\* A supervisor that streams or polls goes on streaming or polling: no step
\* takes it back to connecting, into backoff or to giving up.
ConnectedNeverRetries ==
    [][\A e \in Exchanges :
        sup[e].pc \in {"streaming", "polling"}
        => /\ sup'[e].pc \in {"streaming", "polling"}
           /\ sup'[e].calls = sup[e].calls]_vars

\* The tasks of main() that supervise exchange e.
SupervisorTasks(e) ==
    {i \in DOMAIN orch.tasks :
        /\ orch.tasks[i].coroutine = "monitor_exchange_with_retry"
        /\ orch.tasks[i].exchange_id = e}

\* C21: once main() has started its tasks there is exactly one supervisor
\* task for every configured exchange, with the symbol list of that exchange
\* and the configured testnet flag, none for any other exchange, and exactly
\* one detector task; with no exchange configured the detector is the only
\* task.
C21_OneSupervisorPerExchange ==
    orch.join # "not started" =>
        /\ \A e \in DOMAIN config.exchanges :
              /\ Cardinality(SupervisorTasks(e)) = 1
              /\ \A i \in SupervisorTasks(e) :
                    /\ orch.tasks[i].symbols = config.exchanges[e]
                    /\ orch.tasks[i].use_testnet = config.testnet_enabled
        /\ \A e \in Exchanges \ DOMAIN config.exchanges : SupervisorTasks(e) = {}
        /\ Cardinality({i \in DOMAIN orch.tasks :
                           orch.tasks[i].coroutine = "detect_arbitrage"}) = 1
        /\ Len(orch.tasks) = Cardinality(DOMAIN config.exchanges) + 1
        /\ DOMAIN sup = DOMAIN config.exchanges

\* main() started two supervisors with different symbol lists, on the
\* testnet, and the detector.
C21_Witness ==
    /\ orch.join = "joining"
    /\ DOMAIN config.exchanges = {"E1", "E2"}
    /\ config.testnet_enabled
    /\ config.exchanges["E1"] = <<BTC_USDT>>
    /\ config.exchanges["E2"] = <<ETH_BTC, BTC_USDT>>
    /\ Len(orch.tasks) = 3

\* C22: whatever the supervisor of E1 is doing, the detector completes
\* detection cycles again and again and the supervisor of E2 goes on
\* fetching.  Polling an empty symbol list never awaits and holds the event
\* loop, so TLC finds this violated.
C22_NoTaskBlocksAnother ==
    /\ []<><<DetectCycle>>_vars
    /\ []<><<PollFetch("E2")>>_vars

\* C38: when an __aexit__ has returned, the exchange the wrapper holds has
\* been closed.  __aenter__ on a wrapper that was exited leaves _closed set,
\* so the __aexit__ that follows does not close the new exchange, and TLC
\* finds this violated.
C38_ExitLeavesNoOpenExchange ==
    [][\A e \in Exchanges :
        (/\ sup'[e].exits = sup[e].exits + 1
         /\ sup'[e].close_errors = sup[e].close_errors
         /\ sup'[e].wrapper.exchange)
        => sup'[e].wrapper.held = "closed"]_vars

\* C34: an attempt whose __aenter__ raises because sandbox mode was asked
\* for and is not supported has created the exchange object and has not
\* called load_markets(); close() is called on that object once before the
\* attempt ends (and it is closed unless close() raised), no exchange object
\* is left open, and the supervisor sleeps in backoff or has given up.
C34_SandboxUnsupportedClosedAndRetried ==
    [][\A e \in Exchanges, close_raises \in BOOLEAN :
        ConnectFail(e, "sandbox", close_raises) =>
            /\ config.testnet_enabled
            /\ sup'[e].wrapper.exchange /\ ~sup'[e].wrapper.loaded
            /\ sup'[e].exits = 1 /\ sup'[e].close_calls = 1
            /\ sup'[e].wrapper.held = (IF close_raises THEN "close raised" ELSE "closed")
            /\ sup'[e].open = sup[e].open
            /\ sup'[e].pc = (IF sup[e].attempt < sup[e].max_retries - 1
                             THEN "backoff" ELSE "failed")
            /\ sup'[e].calls = sup[e].calls]_vars

\* An attempt on the testnet ended before load_markets() with its exchange
\* closed, and the supervisor sleeps before the next attempt.
C34_Witness ==
    /\ config.testnet_enabled
    /\ sup["E1"].pc = "backoff"
    /\ sup["E1"].wrapper.exchange /\ ~sup["E1"].wrapper.loaded
    /\ sup["E1"].wrapper.held = "closed"
    /\ sup["E1"].close_calls = 1 /\ sup["E1"].open = 0

\* C31: the current pass of a polling loop is, for the first k symbols of
\* the list in list order, the fetch of the symbol followed by the sleep of
\* the poll interval, whether the fetch raised or not; the next fetch is that
\* of the symbol after them, or of the first symbol when the pass is over.
C31_FetchErrorDoesNotAbortPass ==
    \A e \in Exchanges :
        (sup[e].pc = "polling" /\ ~sleep_raises(e) /\ sup[e].pass # NoResults) =>
            LET pass == sup[e].pass
                symbols == sup[e].symbols
                k == Len(pass) \div 2
            IN  /\ Len(pass) = 2 * k /\ k \in 1..Len(symbols)
                /\ \A i \in 1..k :
                      /\ pass[2 * i - 1].op = "fetch_ticker"
                      /\ pass[2 * i - 1].symbol = symbols[i]
                      /\ pass[2 * i].op = "sleep" /\ ~pass[2 * i].raised
                      /\ pass[2 * i].seconds = sup[e].poll_interval
                /\ sup[e].idx = (k % Len(symbols)) + 1
                /\ sup[e].poll_errors = 0

\* The fetch of the first symbol raised, the loop slept, fetched the second
\* symbol and recorded its quote, slept, and is back at the first symbol.
C31_Witness ==
    /\ sup["E1"].pc = "polling" /\ sup["E1"].idx = 1
    /\ Len(sup["E1"].pass) = 4
    /\ sup["E1"].pass[1].raised /\ sup["E1"].pass[1].symbol = BTC_USDT
    /\ sup["E1"].pass[3].symbol = ETH_BTC /\ ~sup["E1"].pass[3].raised
    /\ Len(Deque(data_store, "E1", ETH_BTC)) = 1

\* C32: a step in which the supervisor of e moves leaves the buffers of
\* every other exchange as they were; and a step that changes a buffer of e
\* is a step of the supervisor of e recording a quote it received: no other
\* supervisor moves and neither the detector nor a lookup runs in it.
C32_SoleWriterOfOwnBuffers ==
    [][\A e \in Exchanges :
        /\ sup'[e] # sup[e] =>
              \A f \in Exchanges \ {e}, s \in Symbols :
                 Deque(data_store', f, s) = Deque(data_store, f, s)
        /\ (\E s \in Symbols : Deque(data_store', e, s) # Deque(data_store, e, s)) =>
              /\ Len(sup'[e].log) > Len(sup[e].log)
              /\ \A f \in Exchanges \ {e} : sup'[f] = sup[f]
              /\ opportunities' = opportunities /\ orch' = orch
              /\ lookup' = lookup]_vars

\* Both supervisors recorded a quote, a detection cycle ran and a lookup was
\* made.
C32_Witness ==
    /\ Len(Deque(data_store, "E1", BTC_USDT)) = 1
    /\ Len(Deque(data_store, "E2", BTC_USDT)) = 1
    /\ opportunities # NoCycle
    /\ lookup.called

\* x == y on Python floats: False when either side is NaN.
FEq(x, y) == ~x.nan /\ ~y.nan /\ x.num * y.den = y.num * x.den

\* 0 <= score <= 100 for a volume score: 0 is in range, and so is the clamped
\* power of a positive notional volume.
ScoreInRange(vs) == vs.score = "0" \/ FGt(vs.usd, Flt(0))

\* score a <= score b: the score 0 is the least one, and the clamped power
\* is non-decreasing in the notional volume.
ScoreLe(a, b) ==
    \/ a.score = "0" /\ (b.score = "0" \/ FGt(b.usd, Flt(0)))
    \/ a.score # "0" /\ b.score # "0" /\ FLe(a.usd, b.usd)

\* C33: an accepted quote has spread_pct == (ask - bid) / bid * 100 and
\* spread_pct >= 0; its volume_score is in [0, 100]; and of two accepted
\* quotes the one with the smaller min(bid*bid_volume, ask*ask_volume) has
\* the smaller or equal volume_score.
C33_SpreadAndScoreInRange ==
    (validated # Pending /\ validated # None) =>
        /\ FEq(validated.spread_pct,
               FMul(FDiv(FSub(validated.ask, validated.bid), validated.bid), Flt(100)))
        /\ FLe(Flt(0), validated.spread_pct)
        /\ ScoreInRange(validated.volume_score)
        /\ \A raw \in RawQuotes :
              LET other == validate_and_enhance_price_data(raw, "E1", BTC_USDT)
              IN  (other # None /\ FLe(validated.volume_score.usd, other.volume_score.usd))
                      => ScoreLe(validated.volume_score, other.volume_score)

\* The same for the quotes whose four fields are all numbers.
C33_HoldsWithoutNaN ==
    (validated # Pending /\ validated # None
        /\ ~validated.bid.nan /\ ~validated.ask.nan
        /\ ~validated.bid_volume.nan /\ ~validated.ask_volume.nan)
            => C33_SpreadAndScoreInRange

\* A number: an int or a float that is a number.
IsNumeric(val) == val.tag \in {"int", "bool"}

\* The configuration is well formed: every key is there, exchanges is a
\* mapping whose every entry has a list under symbols, min_profit_percentage
\* is a number, testnet a boolean, max_age_seconds a positive number, and
\* min_volume_usd has positive numeric triangular and spatial entries.
WellFormed(c) ==
    /\ c.exchanges.tag = "dict"
    /\ \A i \in 1..Len(c.exchanges.entries) :
          c.exchanges.entries[i].kind = "dict" /\ c.exchanges.entries[i].symbols = "list"
    /\ IsNumeric(c.min_profit_percentage)
    /\ c.testnet.tag = "bool"
    /\ IsNumeric(c.max_age_seconds) /\ c.max_age_seconds.v > 0
    /\ c.min_volume_usd.tag = "dict"
    /\ IsNumeric(c.min_volume_usd.triangular) /\ c.min_volume_usd.triangular.v > 0
    /\ IsNumeric(c.min_volume_usd.spatial) /\ c.min_volume_usd.spatial.v > 0

\* C35: validate_config returns True exactly when the configuration is well
\* formed, and ends in a system exit in every other case.
C35_ValidateConfigTrueOrExit ==
    (validated # Pending /\ validated.by = "validate_config") =>
        /\ validated.outcome = "True" <=> WellFormed(config)
        /\ ~WellFormed(config) => validated.outcome = "SystemExit"

\* Config.load: it returns for the configurations validate_config accepts and
\* ends in a system exit for all others.
ConfigLoadReturnsOrExits ==
    (validated # Pending /\ validated.by = "Config.load") =>
        /\ validated.outcome \in {"None", "SystemExit"}
        /\ validated.outcome = "None" <=> validate_config(config) = "True"

\* validate_config on the configurations with no None entry under exchanges
\* and no NaN number.
C35_HoldsWithoutNoneAndNaN ==
    (/\ validated # Pending /\ validated.by = "validate_config"
     /\ \A i \in 1..Len(config.exchanges.entries) : config.exchanges.entries[i].kind = "dict"
     /\ config.max_age_seconds.tag # "nan"
     /\ config.min_volume_usd.triangular.tag # "nan"
     /\ config.min_volume_usd.spatial.tag # "nan")
        => C35_ValidateConfigTrueOrExit

\* C36: with min_profit_percentage >= 0, a cycle never reports both buy X /
\* sell Y and buy Y / sell X for one symbol.
C36_OneDirectionPerPair ==
    (opportunities # NoCycle /\ config.min_profit_percentage >= 0) =>
        \A x \in Exchanges, y \in Exchanges :
            x # y => ~(/\ SpatialReported(BTC_USDT, x, y) # {}
                       /\ SpatialReported(BTC_USDT, y, x) # {})

\* A cycle over fresh quotes of both exchanges reported buy E2 / sell E1 --
\* the reverse direction of the pair (E1, E2) -- and not buy E1 / sell E2.
C36_Witness ==
    /\ opportunities # NoCycle
    /\ data_store.keys = <<"E1", "E2">>
    /\ Fresh("E1", BTC_USDT) /\ Fresh("E2", BTC_USDT)
    /\ SpatialReported(BTC_USDT, "E2", "E1") # {}
    /\ SpatialReported(BTC_USDT, "E1", "E2") = {}

\* The spatial records of a list of opportunities, as a set.
SpatialRecords(opps) ==
    {[buy_exchange |-> opps[i].buy_exchange, sell_exchange |-> opps[i].sell_exchange,
      buy_price |-> opps[i].buy_price, sell_price |-> opps[i].sell_price,
      profit_percentage |-> opps[i].profit_percentage] :
        i \in {j \in DOMAIN opps : opps[j].type = "spatial" /\ opps[j].symbol = BTC_USDT}}

\* The list with its elements in the opposite order.
Reversed(seq) == [i \in 1..Len(seq) |-> seq[Len(seq) + 1 - i]]

\* C37: the set of spatial records a cycle reported for the symbol is the
\* set the scan yields on the same quotes with the exchange list in the
\* opposite order.
C37_SpatialOrderIndependent ==
    opportunities # NoCycle =>
        SpatialRecords(opportunities)
            = SpatialRecords(detect_spatial_arbitrage_cross_exchange(
                  data_store, BTC_USDT, Reversed(data_store.keys),
                  config.min_profit_percentage, now))

\* C39: the gather of a streaming round is started on watch_ticker and
\* watch_order_book of every symbol of the list, in list order; a step that
\* records a quote of the exchange is taken when every subscription of the
\* round has completed or failed, and the quotes it records carry the time of
\* that step, which is not before the completion of any subscription of the
\* round.  So while one subscription stays pending nothing is recorded.
C39_RoundRecordedAfterLastSubscription ==
    [][\A e \in Exchanges :
        /\ (sup[e].round = <<>> /\ sup'[e].round # <<>>) =>
              /\ Len(sup'[e].round) = 2 * Len(sup[e].symbols)
              /\ \A k \in 1..Len(sup[e].symbols) :
                    /\ sup'[e].round[2 * k - 1].op = "watch_ticker"
                    /\ sup'[e].round[2 * k - 1].symbol = sup[e].symbols[k]
                    /\ sup'[e].round[2 * k].op = "watch_order_book"
                    /\ sup'[e].round[2 * k].symbol = sup[e].symbols[k]
        /\ (\/ sup'[e].log # sup[e].log
            \/ \E s \in Symbols : Deque(data_store', e, s) # Deque(data_store, e, s)) =>
              /\ sup[e].round # <<>>
              /\ \A i \in DOMAIN sup[e].round : sup[e].round[i].state = "done"
              /\ \A k \in (Len(sup[e].log) + 1)..Len(sup'[e].log) :
                    /\ sup'[e].log[k][2] = now'
                    /\ \A i \in DOMAIN sup[e].round : sup[e].round[i].at <= sup'[e].log[k][2]]_vars

\* A round has returned after the clock reached 1 and recorded the quote of
\* the first symbol with timestamp 1; the second symbol has no entry.
C39_Witness ==
    /\ sup["E1"].round = <<>>
    /\ Len(Deque(data_store, "E1", BTC_USDT)) = 1
    /\ Deque(data_store, "E1", BTC_USDT)[1][1] = 1
    /\ Deque(data_store, "E1", ETH_BTC) = <<>>

\* The ticker of the first symbol completed with a valid quote, the clock has
\* run to its end, one subscription is still pending, and nothing is recorded.
C39_WitnessPending ==
    /\ now = MaxTime
    /\ Len(sup["E1"].round) = 4
    /\ sup["E1"].round[1].state = "done"
    /\ validate_and_enhance_price_data(sup["E1"].round[1].result, "E1", BTC_USDT) # None
    /\ sup["E1"].round[2].state = "done" /\ sup["E1"].round[3].state = "done"
    /\ sup["E1"].round[4].state = "pending"
    /\ TotalEntries(data_store) = 0

\* age_seconds > max_age_seconds for an entry with timestamp ts
Stale(ts) == now - ts > config.max_age_seconds

\* C40: in every buffer the timestamps do not decrease from the oldest entry
\* to the newest, so no entry is fresher than the newest one, and when the
\* newest entry is stale every entry of the buffer is stale.
C40_TimestampsNonDecreasing ==
    \A e \in Exchanges, s \in Symbols :
        LET dq == Deque(data_store, e, s)
        IN  /\ \A i \in 1..(Len(dq) - 1) : dq[i][1] <= dq[i + 1][1]
            /\ \A i \in DOMAIN dq : dq[i][1] <= dq[Len(dq)][1]
            /\ (dq # <<>> /\ Stale(dq[Len(dq)][1])) => \A i \in DOMAIN dq : Stale(dq[i][1])

\* A full buffer that holds entries of time 0, then of time 1, then one of
\* time 2; the entries of time 0 are stale and the newest is not.
C40_Witness ==
    LET dq == Deque(data_store, "E1", BTC_USDT)
    IN  /\ Len(dq) = MAXLEN /\ now = 2
        /\ dq[1][1] = 0 /\ dq[MAXLEN - 1][1] = 1 /\ dq[MAXLEN][1] = 2
        /\ Stale(dq[1][1]) /\ ~Stale(dq[MAXLEN][1])

\* A full buffer with entries of times 0 and 1 whose newest entry is stale.
C40_WitnessStale ==
    LET dq == Deque(data_store, "E1", BTC_USDT)
    IN  /\ Len(dq) = MAXLEN /\ now = 3
        /\ dq[1][1] = 0 /\ dq[MAXLEN][1] = 1
        /\ Stale(dq[MAXLEN][1])

====
